---- MODULE Spec2Model ----
(***************************************************************************)
(* Market_Data_Fetcher: the incremental-fetch reconciliation of the four   *)
(* downloaders (ETF-India, Stock-India, Index, US-ETF).                    *)
(*                                                                         *)
(* Dates are day numbers counted from the universe's historical floor date *)
(* (day 1 = self.start_date), so "+ timedelta(days=1)" is "+ 1" and the    *)
(* ISO-string comparison start_date > end_date is the integer comparison.  *)
(* The external Source (yfinance) is a fixed table of OHLCV rows per       *)
(* symbol; every call to it either returns its rows for the requested      *)
(* half-open window or raises.  Storage is one table per universe, a bag   *)
(* of rows per symbol, so that a duplicate (symbol, date) is expressible.  *)
(* Each behaviour exercises one universe (its table is private to it).     *)
(***************************************************************************)
EXTENDS Integers, Sequences, FiniteSets, Bags, TLC

VARIABLES
    univ,      \* the universe whose downloader this behaviour exercises
    source,    \* Source content: symbol -> set of OHLCV rows (distinct dates)
    store,     \* the universe's data table: symbol -> bag of stored rows
    run,       \* run id -> the locals of that invocation of a driver
    probe,     \* the calls of the missing-date computation made by CallGetMissingDates
    calendar,  \* the call of TradingCalendar.get_next_trading_day in progress
    generator, \* the call of LiveETFSignalGenerator.generate_signals in progress
    fetchers,  \* the locals of run_all_fetchers and the three universes' tables
    signals,   \* etf_signal / stock_signal: signal id -> row
    strategies,\* etf_saved_strategy / stock_saved_strategy: key -> row
    posts,     \* history: signal id -> webhook POSTs made for the signal
    exec       \* execution id -> the locals of that signal-execution call

\* the state of the programs beside the four downloaders
\* the application database and the signal-execution calls
executor == <<signals, strategies, posts, exec>>

others == <<calendar, generator, fetchers, executor>>

vars == <<univ, source, store, run, probe, others>>

\* no call of TradingCalendar is in progress
NoCalendarCall == [pc |-> "none"]

\* the programs beside the downloaders are not running
\* no call of the signal generator is in progress
NoGeneratorCall == [pc |-> "none"]

\* run_all_fetchers is not running
NoFetchersCall == [pc |-> "none"]

\* no signal, no strategy, no signal-execution call
ExecutorIdle ==
    /\ signals = <<>>
    /\ strategies = <<>>
    /\ posts = <<>>
    /\ exec = <<>>

OthersIdle ==
    /\ calendar = NoCalendarCall
    /\ generator = NoGeneratorCall
    /\ fetchers = NoFetchersCall
    /\ ExecutorIdle

----------------------------------------------------------------------------
(* Bounds and program constants *)

MaxDate == 3                    \* last calendar day of the modelled window

StartDate == 1                  \* self.start_date, the historical floor
MaxRetries == 3                 \* self.max_retries

Dates == 1..MaxDate
Universes == {"etf", "stock", "index", "us"}
RunIds == {1, 2}

\* the configured symbol list of a universe, in iteration order
etf_symbols == <<"A", "B">>
stock_symbols == <<"A", "B">>
us_etf_symbols == <<"A", "B">>
nifty50_symbol == <<"NIFTY50">>

SymbolList(u) ==
    CASE u = "etf" -> etf_symbols
      [] u = "stock" -> stock_symbols
      [] u = "us" -> us_etf_symbols
      [] u = "index" -> nifty50_symbol

SeqToSet(q) == {q[k] : k \in 1..Len(q)}

Symbols(u) == SeqToSet(SymbolList(u))

----------------------------------------------------------------------------
(* Source rows *)

\* one row of the DataFrame yfinance returns
SourceRow(d, c) ==
    [date |-> d, open |-> 1, high |-> 1, low |-> 1, close |-> c,
     adj |-> c, volume |-> 1]

GoodRows(T) == {SourceRow(d, 1) : d \in T}

\* the Source contents a behaviour starts from: any set of trading days with
\* regular prices, or a full calendar whose latest row has a negative or a
\* zero close
BadCloses == {-5, 0}

SourceChoices ==
    {GoodRows(T) : T \in SUBSET Dates}
        \cup {GoodRows(Dates \ {MaxDate}) \cup {SourceRow(MaxDate, c)} : c \in BadCloses}

DatesOf(rows) == {row.date : row \in rows}

\* ticker.history(start=..., end=...): end is exclusive
History(s, start, endExcl) ==
    {row \in source[s] : start <= row.date /\ row.date < endExcl}

----------------------------------------------------------------------------
(* Storage *)

RowsOf(bag) == BagToSet(bag)

StoredDates(bag) == DatesOf(RowsOf(bag))

\* number of rows the table holds for one symbol and date
CountFor(bag, d) ==
    LET hits == {row \in RowsOf(bag) : row.date = d}
        F[S \in SUBSET hits] ==
            IF S = {} THEN 0
            ELSE LET x == CHOOSE y \in S : TRUE
                 IN CopiesIn(x, bag) + F[S \ {x}]
    IN F[hits]

Max(S) == CHOOSE x \in S : \A y \in S : y <= x
Min(S) == CHOOSE x \in S : \A y \in S : x <= y

\* sorted(S) for a set of dates
RECURSIVE Sorted(_)
Sorted(S) == IF S = {} THEN <<>> ELSE <<Min(S)>> \o Sorted(S \ {Min(S)})

\* SELECT MAX(date) FROM <table> WHERE symbol = s; 0 stands for None
MaxStoredDate(bag) ==
    IF StoredDates(bag) = {} THEN 0 ELSE Max(StoredDates(bag))

\* SELECT DISTINCT date ... WHERE symbol = s AND date >= start AND date <= end
ExistingDates(bag, start, end) ==
    {d \in StoredDates(bag) : start <= d /\ d <= end}

\* the tuple the downloaders build for one DataFrame row
Record(row, adjusted) ==
    [date |-> row.date, open |-> row.open, high |-> row.high, low |-> row.low,
     close |-> row.close, adjusted_close |-> adjusted, volume |-> row.volume]

\* the batch INSERT without the ON CONFLICT clause, into a table without
\* the UNIQUE(symbol, date) constraint: every record is appended
InsertWithoutConflictCheck(bag, records) == bag (+) SetToBag(records)

\* INSERT ... ON CONFLICT (symbol, date) DO NOTHING, for a batch of records
InsertDoNothing(bag, records) ==
    bag (+) SetToBag({rec \in records : rec.date \notin StoredDates(bag)})

----------------------------------------------------------------------------
(* Run records *)

IdleRun ==
    [op |-> "none", pc |-> "idle", syms |-> <<>>, i |-> 0,
     wstart |-> 0, end |-> 0,
     last |-> 0, start |-> 0, missing |-> <<>>,
     attempt |-> 0, fetched |-> FALSE, data |-> {}, batch |-> {},
     succ |-> 0, fail |-> 0, skip |-> 0,
     \* history of the run, not read by the code
     outcome |-> "none", saved |-> FALSE, wrote |-> {}, faulted |-> FALSE,
     processed |-> {},
     \* history of the symbol's step: Source calls of the fetch that raised,
     \* whether the Source call of the missing-date step raised, whether a
     \* storage call failed, committed batch writes, stages passed
     srcErrs |-> 0, missErr |-> FALSE, dbErr |-> FALSE, commits |-> 0,
     trail |-> <<>>,
     \* history of download_all_etfs: the Source was called and no
     \* delay_between_requests has passed since
     sinceCall |-> FALSE]

\* the locals a symbol's iteration starts from
FreshStep(rec) ==
    [rec EXCEPT !.last = 0, !.start = 0, !.missing = <<>>, !.attempt = 0,
                !.fetched = FALSE, !.data = {}, !.batch = {},
                !.outcome = "none", !.saved = FALSE, !.wrote = {},
                !.srcErrs = 0, !.missErr = FALSE, !.dbErr = FALSE, !.commits = 0,
                !.trail = <<>>]

Symbol(r) == run[r].syms[run[r].i]

\* the stages of a symbol's step in the order they were first passed
Stage(trail, name) ==
    IF name \in SeqToSet(trail) THEN trail ELSE Append(trail, name)

Init ==
    /\ univ \in Universes
    /\ source \in [Symbols(univ) -> SourceChoices]
    /\ store = [s \in Symbols(univ) |-> EmptyBag]
    /\ run = [r \in RunIds |-> IdleRun]
    /\ probe = <<>>
    /\ OthersIdle

----------------------------------------------------------------------------
(* ETF-India *)

\* ETFDataDownloader.validate_data
EtfValidateData(data) ==
    /\ data # {}
    /\ \A row \in data : row.open >= 0 /\ row.high >= 0 /\ row.low >= 0 /\ row.close >= 0
    /\ \A row \in data : row.volume >= 0

\* ETFDataDownloader.get_last_date_for_symbol
EtfGetLastDateForSymbol(s) == MaxStoredDate(store[s])

\* ETFDataDownloader.get_missing_dates_for_symbol; sourceOk is whether the
\* ticker.history call returned (an exception is swallowed into [])
EtfGetMissingDatesForSymbol(s, start, end, sourceOk) ==
    LET existing_dates == ExistingDates(store[s], start, end)
        data == History(s, start, end + 1)
        trading_dates == DatesOf(data)
    IN IF ~sourceOk \/ data = {} THEN <<>>
       ELSE Sorted(trading_dates \ existing_dates)

\* the rows save_etf_data is handed: renamed columns, adjusted_close = close
EtfRecords(data) == {Record(row, row.close) : row \in data}

\* ETFDataDownloader.download_all_etfs(end_date)
StartDownloadAllEtfs(r, e) ==
    /\ univ = "etf"
    /\ run[r].pc = "idle"
    /\ run' = [run EXCEPT ![r] = [IdleRun EXCEPT !.op = "download_all_etfs",
                   !.pc = "loop", !.syms = etf_symbols, !.end = e]]
    /\ UNCHANGED <<univ, source, store, probe, others>>

\* for i, symbol in enumerate(self.all_symbols, 1)
EtfAllLoop(r) ==
    /\ run[r].op = "download_all_etfs"
    /\ run[r].pc = "loop"
    /\ IF run[r].i < Len(run[r].syms)
       THEN run' = [run EXCEPT ![r] = [FreshStep(@) EXCEPT !.i = @ + 1,
                        !.pc = "cursor",
                        !.processed = @ \cup {run[r].syms[run[r].i + 1]}]]
       ELSE run' = [run EXCEPT ![r].pc = "done"]
    /\ UNCHANGED <<univ, source, store, probe, others>>

\* the same step with start_date always the floor date
EtfAllCursorFromFloor(r) ==
    /\ run[r].op = "download_all_etfs"
    /\ run[r].pc = "cursor"
    /\ \E dbOk \in BOOLEAN :
         IF ~dbOk
         THEN run' = [run EXCEPT ![r].pc = "aborted", ![r].faulted = TRUE,
                          ![r].dbErr = TRUE]
         ELSE LET last_date == EtfGetLastDateForSymbol(Symbol(r))
                  start_date == StartDate
              IN IF start_date > run[r].end
                 THEN run' = [run EXCEPT ![r].last = last_date, ![r].start = start_date, ![r].trail = Stage(@, "cursor"),
                                  ![r].skip = @ + 1, ![r].outcome = "skip",
                                  ![r].pc = "loop"]
                 ELSE run' = [run EXCEPT ![r].last = last_date, ![r].start = start_date, ![r].trail = Stage(@, "cursor"),
                                  ![r].pc = "missing"]
    /\ UNCHANGED <<univ, source, store, probe, others>>

\* steps 1-3: read the cursor, resolve start_date, compare with end_date
EtfAllCursor(r) ==
    /\ run[r].op = "download_all_etfs"
    /\ run[r].pc = "cursor"
    /\ \E dbOk \in BOOLEAN :
         IF ~dbOk
         THEN run' = [run EXCEPT ![r].pc = "aborted", ![r].faulted = TRUE,
                          ![r].dbErr = TRUE]
         ELSE LET last_date == EtfGetLastDateForSymbol(Symbol(r))
                  start_date == IF last_date # 0 THEN last_date + 1 ELSE StartDate
              IN IF start_date > run[r].end
                 THEN run' = [run EXCEPT ![r].last = last_date, ![r].start = start_date, ![r].trail = Stage(@, "cursor"),
                                  ![r].skip = @ + 1, ![r].outcome = "skip",
                                  ![r].pc = "loop"]
                 ELSE run' = [run EXCEPT ![r].last = last_date, ![r].start = start_date, ![r].trail = Stage(@, "cursor"),
                                  ![r].pc = "missing"]
    /\ UNCHANGED <<univ, source, store, probe, others>>

\* step 4: missing trading days between start_date and end_date
EtfAllMissing(r) ==
    /\ run[r].op = "download_all_etfs"
    /\ run[r].pc = "missing"
    /\ \E dbOk \in BOOLEAN, sourceOk \in BOOLEAN :
         IF ~dbOk
         THEN run' = [run EXCEPT ![r].pc = "aborted", ![r].faulted = TRUE,
                          ![r].dbErr = TRUE]
         ELSE LET missing_dates ==
                      EtfGetMissingDatesForSymbol(Symbol(r), run[r].start, run[r].end, sourceOk)
              IN IF missing_dates = <<>>
                 THEN run' = [run EXCEPT ![r].skip = @ + 1, ![r].outcome = "skip",
                                  ![r].faulted = @ \/ ~sourceOk, ![r].missErr = ~sourceOk,
                                  ![r].sinceCall = TRUE, ![r].pc = "loop"]
                 ELSE run' = [run EXCEPT ![r].missing = missing_dates, ![r].trail = Stage(@, "missing"),
                                  ![r].sinceCall = TRUE, ![r].pc = "fetch"]
    /\ UNCHANGED <<univ, source, store, probe, others>>

\* one attempt of the retry loop around ticker.history
EtfAllFetch(r) ==
    /\ run[r].op = "download_all_etfs"
    /\ run[r].pc = "fetch"
    /\ \E sourceOk \in BOOLEAN :
         IF sourceOk
         THEN run' = [run EXCEPT ![r].fetched = TRUE, ![r].trail = Stage(@, "fetch"),
                          ![r].data = History(Symbol(r), run[r].start, run[r].end + 1),
                          ![r].pc = "process"]
         ELSE run' = [run EXCEPT ![r].attempt = @ + 1, ![r].srcErrs = @ + 1, ![r].faulted = TRUE,
                          ![r].pc = IF run[r].attempt + 1 < MaxRetries
                                    THEN "fetch" ELSE "process"]
    /\ UNCHANGED <<univ, source, store, probe, others>>

\* validation and the filter to the missing dates
EtfAllProcess(r) ==
    /\ run[r].op = "download_all_etfs"
    /\ run[r].pc = "process"
    /\ IF run[r].fetched /\ run[r].data # {}
       THEN IF ~EtfValidateData(run[r].data)
            THEN run' = [run EXCEPT ![r].fail = @ + 1, ![r].outcome = "fail",
                             ![r].pc = "loop"]
            ELSE LET data_filtered ==
                         {rec \in EtfRecords(run[r].data) :
                              rec.date \in SeqToSet(run[r].missing)}
                 IN IF data_filtered = {}
                    THEN run' = [run EXCEPT ![r].fail = @ + 1, ![r].outcome = "fail",
                                     ![r].pc = "loop"]
                    ELSE run' = [run EXCEPT ![r].batch = data_filtered, ![r].trail = Stage(@, "validate"),
                                     ![r].pc = "save"]
       ELSE run' = [run EXCEPT ![r].fail = @ + 1, ![r].outcome = "fail",
                        ![r].pc = "sleep"]
    /\ UNCHANGED <<univ, source, store, probe, others>>

\* what a call of save_etf_data / save_stock_data can do: return, raise
\* before conn.commit() (rolled back), or raise in the verification queries
\* that follow conn.commit()
SaveOutcomes == {"ok", "write_error", "verify_error"}

\* self.save_etf_data(data_filtered, symbol): one transaction; an exception
\* is re-raised out of download_all_etfs (the rollback in the handler undoes
\* nothing once conn.commit() has run)
EtfAllSave(r) ==
    /\ run[r].op = "download_all_etfs"
    /\ run[r].pc = "save"
    /\ \E db \in SaveOutcomes :
         LET s == Symbol(r)
             after == InsertDoNothing(store[s], run[r].batch)
         IN CASE db = "write_error" ->
                /\ run' = [run EXCEPT ![r].pc = "aborted", ![r].faulted = TRUE,
                                ![r].dbErr = TRUE]
                /\ store' = store
           [] db = "verify_error" ->
                /\ run' = [run EXCEPT ![r].pc = "aborted", ![r].faulted = TRUE,
                                ![r].dbErr = TRUE, ![r].commits = @ + 1,
                                ![r].wrote = RowsOf(after) \ RowsOf(store[s])]
                /\ store' = [store EXCEPT ![s] = after]
           [] db = "ok" ->
                 /\ store' = [store EXCEPT ![s] = after]
                 /\ run' = [run EXCEPT ![r].succ = @ + 1, ![r].outcome = "succ",
                                 ![r].saved = TRUE, ![r].commits = @ + 1, ![r].wrote = RowsOf(after) \ RowsOf(store[s]),
                                 ![r].pc = "sleep"]
    /\ UNCHANGED <<univ, source, probe, others>>

\* time.sleep(self.delay_between_requests)
EtfAllSleep(r) ==
    /\ run[r].op = "download_all_etfs"
    /\ run[r].pc = "sleep"
    /\ run' = [run EXCEPT ![r].sinceCall = (run[r].i >= Len(run[r].syms)) /\ @,
                    ![r].pc = "loop"]
    /\ UNCHANGED <<univ, source, store, probe, others>>

\* ETFDataDownloader.get_downloaded_symbols, in the order of sorted(...)
EtfGetDownloadedSymbols ==
    SelectSeq(etf_symbols, LAMBDA s : RowsOf(store[s]) # {})

\* ETFDataDownloader.update_missing_dates(start_date, end_date)
StartEtfUpdateMissingDates(r, ws, e) ==
    /\ univ = "etf"
    /\ run[r].pc = "idle"
    /\ \E dbOk \in BOOLEAN :
         IF ~dbOk
         THEN run' = [run EXCEPT ![r] = [IdleRun EXCEPT !.op = "etf_update_missing_dates",
                         !.pc = "aborted", !.faulted = TRUE]]
         ELSE run' = [run EXCEPT ![r] = [IdleRun EXCEPT !.op = "etf_update_missing_dates",
                         !.pc = IF EtfGetDownloadedSymbols = <<>> THEN "done" ELSE "loop",
                         !.syms = EtfGetDownloadedSymbols,
                         !.wstart = ws, !.start = ws, !.end = e]]
    /\ UNCHANGED <<univ, source, store, probe, others>>

\* for symbol in sorted(downloaded_symbols)
EtfUpdLoop(r) ==
    /\ run[r].op = "etf_update_missing_dates"
    /\ run[r].pc = "loop"
    /\ IF run[r].i < Len(run[r].syms)
       THEN run' = [run EXCEPT ![r] = [FreshStep(@) EXCEPT !.i = @ + 1,
                        !.start = run[r].wstart, !.pc = "missing",
                        !.processed = @ \cup {run[r].syms[run[r].i + 1]}]]
       ELSE run' = [run EXCEPT ![r].pc = "done"]
    /\ UNCHANGED <<univ, source, store, probe, others>>

\* missing_dates = self.get_missing_dates_for_symbol(symbol, start_date, end_date)
EtfUpdMissing(r) ==
    /\ run[r].op = "etf_update_missing_dates"
    /\ run[r].pc = "missing"
    /\ \E dbOk \in BOOLEAN, sourceOk \in BOOLEAN :
         IF ~dbOk
         THEN run' = [run EXCEPT ![r].pc = "aborted", ![r].faulted = TRUE,
                          ![r].dbErr = TRUE]
         ELSE LET missing_dates ==
                      EtfGetMissingDatesForSymbol(Symbol(r), run[r].start, run[r].end, sourceOk)
              IN IF missing_dates = <<>>
                 THEN run' = [run EXCEPT ![r].outcome = "uncounted",
                                  ![r].faulted = @ \/ ~sourceOk, ![r].missErr = ~sourceOk, ![r].pc = "loop"]
                 ELSE run' = [run EXCEPT ![r].missing = missing_dates, ![r].pc = "fetch"]
    /\ UNCHANGED <<univ, source, store, probe, others>>

\* one attempt of the retry loop: ticker.history raises or returns
EtfUpdFetch(r) ==
    /\ run[r].op = "etf_update_missing_dates"
    /\ run[r].pc = "fetch"
    /\ \E sourceOk \in BOOLEAN :
         IF sourceOk
         THEN run' = [run EXCEPT ![r].fetched = TRUE,
                          ![r].data = History(Symbol(r), run[r].start, run[r].end + 1),
                          ![r].pc = "process"]
         ELSE IF run[r].attempt + 1 < MaxRetries
              THEN run' = [run EXCEPT ![r].attempt = @ + 1, ![r].srcErrs = @ + 1, ![r].faulted = TRUE]
              ELSE run' = [run EXCEPT ![r].attempt = @ + 1, ![r].srcErrs = @ + 1, ![r].faulted = TRUE,
                               ![r].fail = @ + 1, ![r].outcome = "fail",
                               ![r].pc = "sleep"]
    /\ UNCHANGED <<univ, source, store, probe, others>>

\* the body of the try after the fetch: empty check, validation, filter
EtfUpdProcess(r) ==
    /\ run[r].op = "etf_update_missing_dates"
    /\ run[r].pc = "process"
    /\ LET data_filtered ==
               {rec \in EtfRecords(run[r].data) : rec.date \in SeqToSet(run[r].missing)}
       IN IF run[r].data # {} /\ EtfValidateData(run[r].data) /\ data_filtered # {}
          THEN run' = [run EXCEPT ![r].batch = data_filtered, ![r].pc = "save"]
          ELSE run' = [run EXCEPT ![r].outcome = "uncounted", ![r].pc = "sleep"]
    /\ UNCHANGED <<univ, source, store, probe, others>>

\* self.save_etf_data(data, symbol) inside the try: its exception is caught
\* by the retry loop's handler
EtfUpdSave(r) ==
    /\ run[r].op = "etf_update_missing_dates"
    /\ run[r].pc = "save"
    /\ \E db \in SaveOutcomes :
         LET s == Symbol(r)
             after == InsertDoNothing(store[s], run[r].batch)
             committed == IF db = "verify_error" THEN 1 ELSE 0
         IN IF db # "ok"
            THEN /\ store' = IF db = "verify_error"
                             THEN [store EXCEPT ![s] = after] ELSE store
                 /\ IF run[r].attempt + 1 < MaxRetries
                    THEN run' = [run EXCEPT ![r].attempt = @ + 1, ![r].dbErr = TRUE,
                                     ![r].faulted = TRUE, ![r].commits = @ + committed,
                                     ![r].pc = "fetch"]
                    ELSE run' = [run EXCEPT ![r].attempt = @ + 1, ![r].dbErr = TRUE,
                                     ![r].faulted = TRUE, ![r].commits = @ + committed,
                                     ![r].fail = @ + 1, ![r].outcome = "fail",
                                     ![r].pc = "sleep"]
            ELSE /\ store' = [store EXCEPT ![s] = after]
                 /\ run' = [run EXCEPT ![r].succ = @ + 1, ![r].outcome = "succ",
                                 ![r].saved = TRUE, ![r].commits = @ + 1, ![r].wrote = RowsOf(after) \ RowsOf(store[s]),
                                 ![r].pc = "sleep"]
    /\ UNCHANGED <<univ, source, probe, others>>

\* time.sleep(self.delay_between_requests)
EtfUpdSleep(r) ==
    /\ run[r].op = "etf_update_missing_dates"
    /\ run[r].pc = "sleep"
    /\ run' = [run EXCEPT ![r].pc = "loop"]
    /\ UNCHANGED <<univ, source, store, probe, others>>

----------------------------------------------------------------------------
(* Stock-India *)

\* what a psycopg2 call can do: succeed, fail to connect (psycopg2.connect
\* is outside the try blocks), or fail inside the try (psycopg2.Error)
DbOutcomes == {"ok", "connect_error", "query_error"}

\* pd.date_range(start, end, freq='B'): Monday to Friday; day 1 is
\* 2001-01-01, a Monday
IsBusinessDay(d) == (d - 1) % 7 < 5

BusinessDays(start, end) == {d \in start..end : IsBusinessDay(d)}

\* StockDataDownloader.validate_data
StockValidateData(data) ==
    /\ data # {}
    /\ \A row \in data : ~(row.open <= 0) /\ ~(row.high <= 0) /\ ~(row.low <= 0)
                            /\ ~(row.close <= 0)
    /\ \A row \in data : row.volume >= 0

\* StockDataDownloader.get_downloaded_symbols, in the order of sorted(...)
StockGetDownloadedSymbols(db) ==
    IF db = "ok" THEN SelectSeq(stock_symbols, LAMBDA s : RowsOf(store[s]) # {})
    ELSE <<>>

\* StockDataDownloader.get_last_date_for_symbol; 0 stands for None
StockGetLastDateForSymbol(s, db) ==
    IF db = "ok" THEN MaxStoredDate(store[s]) ELSE 0

\* StockDataDownloader.get_missing_dates_for_symbol
StockGetMissingDatesForSymbol(s, start, end, db) ==
    LET existing_dates == ExistingDates(store[s], start, end)
        all_dates == BusinessDays(start, end)
    IN IF db = "ok" THEN Sorted(all_dates \ existing_dates) ELSE <<>>

\* the rows save_stock_data is handed: renamed columns, adj_close = close
StockRecords(data) == {Record(row, row.close) : row \in data}

\* StockDataDownloader.update_missing_dates(end_date)
StartStockUpdateMissingDates(r, e) ==
    /\ univ = "stock"
    /\ run[r].pc = "idle"
    /\ \E db \in DbOutcomes :
         IF db = "connect_error"
         THEN run' = [run EXCEPT ![r] = [IdleRun EXCEPT !.op = "stock_update_missing_dates",
                         !.pc = "aborted", !.faulted = TRUE]]
         ELSE run' = [run EXCEPT ![r] = [IdleRun EXCEPT !.op = "stock_update_missing_dates",
                         !.pc = IF StockGetDownloadedSymbols(db) = <<>> THEN "done" ELSE "loop",
                         !.syms = StockGetDownloadedSymbols(db),
                         !.faulted = (db # "ok"), !.end = e]]
    /\ UNCHANGED <<univ, source, store, probe, others>>

\* for symbol in sorted(downloaded_symbols)
StockUpdLoop(r) ==
    /\ run[r].op = "stock_update_missing_dates"
    /\ run[r].pc = "loop"
    /\ IF run[r].i < Len(run[r].syms)
       THEN run' = [run EXCEPT ![r] = [FreshStep(@) EXCEPT !.i = @ + 1,
                        !.pc = "cursor",
                        !.processed = @ \cup {run[r].syms[run[r].i + 1]}]]
       ELSE run' = [run EXCEPT ![r].pc = "done"]
    /\ UNCHANGED <<univ, source, store, probe, others>>

\* last date, start_date = last date + 1 day, start_date > end_date
StockUpdCursor(r) ==
    /\ run[r].op = "stock_update_missing_dates"
    /\ run[r].pc = "cursor"
    /\ \E db \in DbOutcomes :
         IF db = "connect_error"
         THEN run' = [run EXCEPT ![r].pc = "aborted", ![r].faulted = TRUE,
                          ![r].dbErr = TRUE]
         ELSE LET last_date == StockGetLastDateForSymbol(Symbol(r), db)
                  start_date == last_date + 1
              IN IF last_date = 0
                 THEN run' = [run EXCEPT ![r].skip = @ + 1, ![r].outcome = "skip",
                                  ![r].faulted = @ \/ db # "ok", ![r].dbErr = @ \/ db # "ok", ![r].pc = "loop"]
                 ELSE IF start_date > run[r].end
                      THEN run' = [run EXCEPT ![r].last = last_date,
                                       ![r].start = start_date, ![r].trail = Stage(@, "cursor"),
                                       ![r].skip = @ + 1, ![r].outcome = "skip",
                                       ![r].pc = "loop"]
                      ELSE run' = [run EXCEPT ![r].last = last_date,
                                       ![r].start = start_date, ![r].trail = Stage(@, "cursor"), ![r].pc = "missing"]
    /\ UNCHANGED <<univ, source, store, probe, others>>

\* missing_dates = self.get_missing_dates_for_symbol(symbol, start_date, end_date)
StockUpdMissing(r) ==
    /\ run[r].op = "stock_update_missing_dates"
    /\ run[r].pc = "missing"
    /\ \E db \in DbOutcomes :
         IF db = "connect_error"
         THEN run' = [run EXCEPT ![r].pc = "aborted", ![r].faulted = TRUE,
                          ![r].dbErr = TRUE]
         ELSE LET missing_dates ==
                      StockGetMissingDatesForSymbol(Symbol(r), run[r].start, run[r].end, db)
              IN IF missing_dates = <<>>
                 THEN run' = [run EXCEPT ![r].skip = @ + 1, ![r].outcome = "skip",
                                  ![r].faulted = @ \/ db # "ok", ![r].dbErr = @ \/ db # "ok", ![r].pc = "loop"]
                 ELSE run' = [run EXCEPT ![r].missing = missing_dates, ![r].trail = Stage(@, "missing"), ![r].pc = "fetch"]
    /\ UNCHANGED <<univ, source, store, probe, others>>

\* one attempt of the retry loop: ticker.history raises or returns
StockUpdFetch(r) ==
    /\ run[r].op = "stock_update_missing_dates"
    /\ run[r].pc = "fetch"
    /\ \E sourceOk \in BOOLEAN :
         IF sourceOk
         THEN run' = [run EXCEPT ![r].fetched = TRUE, ![r].trail = Stage(@, "fetch"),
                          ![r].data = History(Symbol(r), run[r].start, run[r].end + 1),
                          ![r].pc = "process"]
         ELSE IF run[r].attempt + 1 < MaxRetries
              THEN run' = [run EXCEPT ![r].attempt = @ + 1, ![r].srcErrs = @ + 1, ![r].faulted = TRUE]
              ELSE run' = [run EXCEPT ![r].attempt = @ + 1, ![r].srcErrs = @ + 1, ![r].faulted = TRUE,
                               ![r].fail = @ + 1, ![r].outcome = "fail",
                               ![r].pc = "sleep"]
    /\ UNCHANGED <<univ, source, store, probe, others>>

\* the body of the try after the fetch: empty check, validation, filter
StockUpdProcessUnvalidated(r) ==
    /\ run[r].op = "stock_update_missing_dates"
    /\ run[r].pc = "process"
    /\ LET data_filtered ==
               {rec \in StockRecords(run[r].data) : rec.date \in SeqToSet(run[r].missing)}
       IN IF run[r].data # {} /\ data_filtered # {}
          THEN run' = [run EXCEPT ![r].batch = data_filtered, ![r].trail = Stage(@, "validate"), ![r].pc = "save"]
          ELSE run' = [run EXCEPT ![r].outcome = "uncounted", ![r].pc = "sleep"]
    /\ UNCHANGED <<univ, source, store, probe, others>>

StockUpdProcess(r) ==
    /\ run[r].op = "stock_update_missing_dates"
    /\ run[r].pc = "process"
    /\ LET data_filtered ==
               {rec \in StockRecords(run[r].data) : rec.date \in SeqToSet(run[r].missing)}
       IN IF run[r].data # {} /\ StockValidateData(run[r].data) /\ data_filtered # {}
          THEN run' = [run EXCEPT ![r].batch = data_filtered, ![r].trail = Stage(@, "validate"), ![r].pc = "save"]
          ELSE run' = [run EXCEPT ![r].outcome = "uncounted", ![r].pc = "sleep"]
    /\ UNCHANGED <<univ, source, store, probe, others>>

\* self.save_stock_data(data, symbol) inside the try: a psycopg2.Error is
\* swallowed by save_stock_data (rolled back if raised before conn.commit(),
\* the batch stays if raised by the verification query after it), a failed
\* connect is caught by the retry loop's handler
StockUpdSave(r) ==
    /\ run[r].op = "stock_update_missing_dates"
    /\ run[r].pc = "save"
    /\ \E db \in DbOutcomes \cup {"verify_error"} :
         CASE db = "connect_error" ->
                /\ store' = store
                /\ IF run[r].attempt + 1 < MaxRetries
                   THEN run' = [run EXCEPT ![r].attempt = @ + 1, ![r].dbErr = TRUE, ![r].faulted = TRUE,
                                    ![r].pc = "fetch"]
                   ELSE run' = [run EXCEPT ![r].attempt = @ + 1, ![r].dbErr = TRUE, ![r].faulted = TRUE,
                                    ![r].fail = @ + 1, ![r].outcome = "fail",
                                    ![r].pc = "sleep"]
           [] db = "query_error" ->
                /\ store' = store
                /\ run' = [run EXCEPT ![r].succ = @ + 1, ![r].outcome = "succ",
                                ![r].faulted = TRUE, ![r].dbErr = TRUE,
                                ![r].pc = "sleep"]
           [] db = "verify_error" ->
                LET s == Symbol(r)
                    after == InsertDoNothing(store[s], run[r].batch)
                IN /\ store' = [store EXCEPT ![s] = after]
                   /\ run' = [run EXCEPT ![r].succ = @ + 1, ![r].outcome = "succ",
                                   ![r].faulted = TRUE, ![r].dbErr = TRUE,
                                   ![r].commits = @ + 1,
                                   ![r].wrote = RowsOf(after) \ RowsOf(store[s]),
                                   ![r].pc = "sleep"]
           [] db = "ok" ->
                LET s == Symbol(r)
                    after == InsertDoNothing(store[s], run[r].batch)
                IN /\ store' = [store EXCEPT ![s] = after]
                   /\ run' = [run EXCEPT ![r].succ = @ + 1, ![r].outcome = "succ",
                                   ![r].saved = TRUE, ![r].commits = @ + 1, ![r].wrote = RowsOf(after) \ RowsOf(store[s]),
                                   ![r].pc = "sleep"]
    /\ UNCHANGED <<univ, source, probe, others>>

\* time.sleep(self.delay_between_requests)
StockUpdSleep(r) ==
    /\ run[r].op = "stock_update_missing_dates"
    /\ run[r].pc = "sleep"
    /\ run' = [run EXCEPT ![r].pc = "loop"]
    /\ UNCHANGED <<univ, source, store, probe, others>>

\* StockDataDownloader.download_all_stocks(); e is self.end_date
StartDownloadAllStocks(r, e) ==
    /\ univ = "stock"
    /\ run[r].pc = "idle"
    /\ \E db \in DbOutcomes :
         IF db = "connect_error"
         THEN run' = [run EXCEPT ![r] = [IdleRun EXCEPT !.op = "download_all_stocks",
                         !.pc = "aborted", !.faulted = TRUE]]
         ELSE LET downloaded_symbols == SeqToSet(StockGetDownloadedSymbols(db))
                  remaining_symbols ==
                      SelectSeq(stock_symbols, LAMBDA s : s \notin downloaded_symbols)
              IN run' = [run EXCEPT ![r] = [IdleRun EXCEPT !.op = "download_all_stocks",
                         !.pc = IF remaining_symbols = <<>> THEN "done" ELSE "loop",
                         !.syms = remaining_symbols,
                         !.faulted = (db # "ok"), !.end = e]]
    /\ UNCHANGED <<univ, source, store, probe, others>>

\* for i, symbol in enumerate(remaining_symbols, 1)
StockAllLoop(r) ==
    /\ run[r].op = "download_all_stocks"
    /\ run[r].pc = "loop"
    /\ IF run[r].i < Len(run[r].syms)
       THEN run' = [run EXCEPT ![r] = [FreshStep(@) EXCEPT !.i = @ + 1,
                        !.start = StartDate, !.pc = "fetch",
                        !.processed = @ \cup {run[r].syms[run[r].i + 1]}]]
       ELSE run' = [run EXCEPT ![r].pc = "done"]
    /\ UNCHANGED <<univ, source, store, probe, others>>

\* StockDataDownloader.download_stock_data: one attempt of its retry loop,
\* up to the return of ticker.history
StockAllFetch(r) ==
    /\ run[r].op = "download_all_stocks"
    /\ run[r].pc = "fetch"
    /\ \E sourceOk \in BOOLEAN :
         IF sourceOk
         THEN run' = [run EXCEPT ![r].fetched = TRUE,
                          ![r].data = History(Symbol(r), StartDate, run[r].end + 1),
                          ![r].pc = "process"]
         ELSE IF run[r].attempt + 1 < MaxRetries
              THEN run' = [run EXCEPT ![r].attempt = @ + 1, ![r].srcErrs = @ + 1, ![r].faulted = TRUE]
              ELSE run' = [run EXCEPT ![r].attempt = @ + 1, ![r].srcErrs = @ + 1, ![r].faulted = TRUE,
                               ![r].fail = @ + 1, ![r].outcome = "fail",
                               ![r].pc = "sleep"]
    /\ UNCHANGED <<univ, source, store, probe, others>>

\* download_stock_data after the fetch: empty -> None, validation failure ->
\* next attempt or None, else the prepared frame
StockAllProcess(r) ==
    /\ run[r].op = "download_all_stocks"
    /\ run[r].pc = "process"
    /\ IF run[r].data = {}
       THEN run' = [run EXCEPT ![r].fail = @ + 1, ![r].outcome = "fail",
                        ![r].pc = "sleep"]
       ELSE IF ~StockValidateData(run[r].data)
            THEN IF run[r].attempt + 1 < MaxRetries
                 THEN run' = [run EXCEPT ![r].attempt = @ + 1, ![r].pc = "fetch"]
                 ELSE run' = [run EXCEPT ![r].attempt = @ + 1,
                                  ![r].fail = @ + 1, ![r].outcome = "fail",
                                  ![r].pc = "sleep"]
            ELSE run' = [run EXCEPT ![r].batch = StockRecords(run[r].data),
                             ![r].pc = "save"]
    /\ UNCHANGED <<univ, source, store, probe, others>>

\* self.save_stock_data(data, symbol) outside any try
StockAllSave(r) ==
    /\ run[r].op = "download_all_stocks"
    /\ run[r].pc = "save"
    /\ \E db \in DbOutcomes \cup {"verify_error"} :
         CASE db = "connect_error" ->
                /\ store' = store
                /\ run' = [run EXCEPT ![r].pc = "aborted", ![r].faulted = TRUE,
                          ![r].dbErr = TRUE]
           [] db = "query_error" ->
                /\ store' = store
                /\ run' = [run EXCEPT ![r].succ = @ + 1, ![r].outcome = "succ",
                                ![r].faulted = TRUE, ![r].dbErr = TRUE,
                                ![r].pc = "sleep"]
           [] db = "verify_error" ->
                LET s == Symbol(r)
                    after == InsertDoNothing(store[s], run[r].batch)
                IN /\ store' = [store EXCEPT ![s] = after]
                   /\ run' = [run EXCEPT ![r].succ = @ + 1, ![r].outcome = "succ",
                                   ![r].faulted = TRUE, ![r].dbErr = TRUE,
                                   ![r].commits = @ + 1,
                                   ![r].wrote = RowsOf(after) \ RowsOf(store[s]),
                                   ![r].pc = "sleep"]
           [] db = "ok" ->
                LET s == Symbol(r)
                    after == InsertDoNothing(store[s], run[r].batch)
                IN /\ store' = [store EXCEPT ![s] = after]
                   /\ run' = [run EXCEPT ![r].succ = @ + 1, ![r].outcome = "succ",
                                   ![r].saved = TRUE, ![r].commits = @ + 1, ![r].wrote = RowsOf(after) \ RowsOf(store[s]),
                                   ![r].pc = "sleep"]
    /\ UNCHANGED <<univ, source, probe, others>>

\* time.sleep(self.delay_between_requests) unless it was the last symbol
StockAllSleep(r) ==
    /\ run[r].op = "download_all_stocks"
    /\ run[r].pc = "sleep"
    /\ run' = [run EXCEPT ![r].pc = "loop"]
    /\ UNCHANGED <<univ, source, store, probe, others>>

----------------------------------------------------------------------------
(* Index (NIFTY 50) *)

\* IndexDataDownloader.validate_data
IndexValidateData(data) ==
    /\ data # {}
    /\ \A row \in data : ~(row.open <= 0) /\ ~(row.high <= 0) /\ ~(row.low <= 0)
                            /\ ~(row.close <= 0)
    /\ \A row \in data : row.volume >= 0

\* IndexDataDownloader.get_last_date_for_symbol; 0 stands for None
IndexGetLastDateForSymbol(db) ==
    IF db = "ok" THEN MaxStoredDate(store["NIFTY50"]) ELSE 0

\* IndexDataDownloader.get_missing_dates
IndexGetMissingDates(start, end, db) ==
    LET existing_dates == ExistingDates(store["NIFTY50"], start, end)
        all_dates == BusinessDays(start, end)
    IN IF db = "ok" THEN Sorted(all_dates \ existing_dates) ELSE <<>>

\* IndexDataDownloader.get_downloaded_data
IndexGetDownloadedData(db) ==
    IF db = "ok" THEN RowsOf(store["NIFTY50"]) # {} ELSE FALSE

\* the rows save_nifty50_data is handed: adj_close is the 'Adj Close' column
IndexRecords(data) == {Record(row, row.adj) : row \in data}

\* IndexDataDownloader.update_missing_dates(start_date, end_date); ws = 0
\* stands for start_date=None
StartIndexUpdateMissingDates(r, ws, e) ==
    /\ univ = "index"
    /\ run[r].pc = "idle"
    /\ run' = [run EXCEPT ![r] = [IdleRun EXCEPT !.op = "index_update_missing_dates",
                   !.pc = IF ws = 0 THEN "cursor" ELSE "missing",
                   !.syms = nifty50_symbol, !.i = 1, !.processed = {"NIFTY50"},
                   !.wstart = ws, !.start = ws, !.end = e]]
    /\ UNCHANGED <<univ, source, store, probe, others>>

\* if start_date is None: last date in the table + 1 day, or self.start_date
IndexUpdCursor(r) ==
    /\ run[r].op = "index_update_missing_dates"
    /\ run[r].pc = "cursor"
    /\ \E db \in DbOutcomes :
         IF db = "connect_error"
         THEN run' = [run EXCEPT ![r].pc = "aborted", ![r].faulted = TRUE,
                          ![r].dbErr = TRUE]
         ELSE LET last_date == IndexGetLastDateForSymbol(db)
                  start_date == IF last_date # 0 THEN last_date + 1 ELSE StartDate
              IN run' = [run EXCEPT ![r].last = last_date, ![r].start = start_date, ![r].trail = Stage(@, "cursor"),
                              ![r].faulted = @ \/ db # "ok", ![r].dbErr = @ \/ db # "ok", ![r].pc = "missing"]
    /\ UNCHANGED <<univ, source, store, probe, others>>

\* missing_dates = self.get_missing_dates(start_date, end_date)
IndexUpdMissing(r) ==
    /\ run[r].op = "index_update_missing_dates"
    /\ run[r].pc = "missing"
    /\ \E db \in DbOutcomes :
         IF db = "connect_error"
         THEN run' = [run EXCEPT ![r].pc = "aborted", ![r].faulted = TRUE,
                          ![r].dbErr = TRUE]
         ELSE LET missing_dates == IndexGetMissingDates(run[r].start, run[r].end, db)
              IN IF missing_dates = <<>>
                 THEN run' = [run EXCEPT ![r].outcome = "uncounted",
                                  ![r].faulted = @ \/ db # "ok", ![r].dbErr = @ \/ db # "ok", ![r].pc = "done"]
                 ELSE run' = [run EXCEPT ![r].missing = missing_dates, ![r].trail = Stage(@, "missing"), ![r].pc = "fetch"]
    /\ UNCHANGED <<univ, source, store, probe, others>>

\* one attempt of the retry loop: ticker.history raises or returns
IndexUpdFetch(r) ==
    /\ run[r].op = "index_update_missing_dates"
    /\ run[r].pc = "fetch"
    /\ \E sourceOk \in BOOLEAN :
         IF sourceOk
         THEN run' = [run EXCEPT ![r].fetched = TRUE, ![r].trail = Stage(@, "fetch"),
                          ![r].data = History("NIFTY50", run[r].start, run[r].end + 1),
                          ![r].pc = "process"]
         ELSE IF run[r].attempt + 1 < MaxRetries
              THEN run' = [run EXCEPT ![r].attempt = @ + 1, ![r].srcErrs = @ + 1, ![r].faulted = TRUE]
              ELSE run' = [run EXCEPT ![r].attempt = @ + 1, ![r].srcErrs = @ + 1, ![r].faulted = TRUE,
                               ![r].outcome = "uncounted", ![r].pc = "done"]
    /\ UNCHANGED <<univ, source, store, probe, others>>

\* the same step without the filter on missing_dates
IndexUpdProcessUnfiltered(r) ==
    /\ run[r].op = "index_update_missing_dates"
    /\ run[r].pc = "process"
    /\ LET data_filtered == IndexRecords(run[r].data)
       IN IF run[r].data # {} /\ IndexValidateData(run[r].data) /\ data_filtered # {}
          THEN run' = [run EXCEPT ![r].batch = data_filtered, ![r].trail = Stage(@, "validate"), ![r].pc = "save"]
          ELSE run' = [run EXCEPT ![r].outcome = "uncounted", ![r].pc = "done"]
    /\ UNCHANGED <<univ, source, store, probe, others>>

\* the body of the try after the fetch: empty check, validation, filter
IndexUpdProcess(r) ==
    /\ run[r].op = "index_update_missing_dates"
    /\ run[r].pc = "process"
    /\ LET data_filtered ==
               {rec \in IndexRecords(run[r].data) : rec.date \in SeqToSet(run[r].missing)}
       IN IF run[r].data # {} /\ IndexValidateData(run[r].data) /\ data_filtered # {}
          THEN run' = [run EXCEPT ![r].batch = data_filtered, ![r].trail = Stage(@, "validate"), ![r].pc = "save"]
          ELSE run' = [run EXCEPT ![r].outcome = "uncounted", ![r].pc = "done"]
    /\ UNCHANGED <<univ, source, store, probe, others>>

\* self.save_nifty50_data(data) inside the try: a psycopg2.Error is rolled
\* back and swallowed, a failed connect is caught by the retry loop's handler
IndexUpdSave(r) ==
    /\ run[r].op = "index_update_missing_dates"
    /\ run[r].pc = "save"
    /\ \E db \in DbOutcomes :
         CASE db = "connect_error" ->
                /\ store' = store
                /\ IF run[r].attempt + 1 < MaxRetries
                   THEN run' = [run EXCEPT ![r].attempt = @ + 1, ![r].dbErr = TRUE, ![r].faulted = TRUE,
                                    ![r].pc = "fetch"]
                   ELSE run' = [run EXCEPT ![r].attempt = @ + 1, ![r].dbErr = TRUE, ![r].faulted = TRUE,
                                    ![r].outcome = "uncounted", ![r].pc = "done"]
           [] db = "query_error" ->
                /\ store' = store
                /\ run' = [run EXCEPT ![r].outcome = "uncounted",
                                ![r].faulted = TRUE, ![r].dbErr = TRUE,
                                ![r].pc = "done"]
           [] db = "ok" ->
                LET after == InsertDoNothing(store["NIFTY50"], run[r].batch)
                IN /\ store' = [store EXCEPT !["NIFTY50"] = after]
                   /\ run' = [run EXCEPT ![r].outcome = "uncounted",
                                   ![r].saved = TRUE, ![r].commits = @ + 1, ![r].wrote = RowsOf(after) \ RowsOf(store["NIFTY50"]),
                                   ![r].pc = "done"]
    /\ UNCHANGED <<univ, source, probe, others>>

\* IndexDataDownloader.download_nifty50(); e is self.end_date
StartDownloadNifty50(r, e) ==
    /\ univ = "index"
    /\ run[r].pc = "idle"
    /\ \E db \in DbOutcomes :
         IF db = "connect_error"
         THEN run' = [run EXCEPT ![r] = [IdleRun EXCEPT !.op = "download_nifty50",
                         !.pc = "aborted", !.faulted = TRUE]]
         ELSE IF IndexGetDownloadedData(db)
              THEN run' = [run EXCEPT ![r] = [IdleRun EXCEPT !.op = "download_nifty50",
                              !.pc = "done", !.end = e]]
              ELSE run' = [run EXCEPT ![r] = [IdleRun EXCEPT !.op = "download_nifty50",
                              !.pc = "fetch", !.syms = nifty50_symbol, !.i = 1,
                              !.processed = {"NIFTY50"}, !.start = StartDate,
                              !.faulted = (db # "ok"), !.end = e]]
    /\ UNCHANGED <<univ, source, store, probe, others>>

\* IndexDataDownloader.download_nifty50_data: one attempt of its retry loop,
\* up to the return of ticker.history
IndexAllFetch(r) ==
    /\ run[r].op = "download_nifty50"
    /\ run[r].pc = "fetch"
    /\ \E sourceOk \in BOOLEAN :
         IF sourceOk
         THEN run' = [run EXCEPT ![r].fetched = TRUE,
                          ![r].data = History("NIFTY50", StartDate, run[r].end + 1),
                          ![r].pc = "process"]
         ELSE IF run[r].attempt + 1 < MaxRetries
              THEN run' = [run EXCEPT ![r].attempt = @ + 1, ![r].srcErrs = @ + 1, ![r].faulted = TRUE]
              ELSE run' = [run EXCEPT ![r].attempt = @ + 1, ![r].srcErrs = @ + 1, ![r].faulted = TRUE,
                               ![r].outcome = "uncounted", ![r].pc = "done"]
    /\ UNCHANGED <<univ, source, store, probe, others>>

\* download_nifty50_data after the fetch: empty -> None, validation failure
\* -> next attempt or None, else the prepared frame
IndexAllProcess(r) ==
    /\ run[r].op = "download_nifty50"
    /\ run[r].pc = "process"
    /\ IF run[r].data = {}
       THEN run' = [run EXCEPT ![r].outcome = "uncounted", ![r].pc = "done"]
       ELSE IF ~IndexValidateData(run[r].data)
            THEN IF run[r].attempt + 1 < MaxRetries
                 THEN run' = [run EXCEPT ![r].attempt = @ + 1, ![r].pc = "fetch"]
                 ELSE run' = [run EXCEPT ![r].attempt = @ + 1,
                                  ![r].outcome = "uncounted", ![r].pc = "done"]
            ELSE run' = [run EXCEPT ![r].batch = IndexRecords(run[r].data),
                             ![r].pc = "save"]
    /\ UNCHANGED <<univ, source, store, probe, others>>

\* self.save_nifty50_data(data) outside any try
IndexAllSave(r) ==
    /\ run[r].op = "download_nifty50"
    /\ run[r].pc = "save"
    /\ \E db \in DbOutcomes :
         CASE db = "connect_error" ->
                /\ store' = store
                /\ run' = [run EXCEPT ![r].pc = "aborted", ![r].faulted = TRUE,
                          ![r].dbErr = TRUE]
           [] db = "query_error" ->
                /\ store' = store
                /\ run' = [run EXCEPT ![r].outcome = "uncounted",
                                ![r].faulted = TRUE, ![r].dbErr = TRUE,
                                ![r].pc = "done"]
           [] db = "ok" ->
                LET after == InsertDoNothing(store["NIFTY50"], run[r].batch)
                IN /\ store' = [store EXCEPT !["NIFTY50"] = after]
                   /\ run' = [run EXCEPT ![r].outcome = "uncounted",
                                   ![r].saved = TRUE, ![r].commits = @ + 1, ![r].wrote = RowsOf(after) \ RowsOf(store["NIFTY50"]),
                                   ![r].pc = "done"]
    /\ UNCHANGED <<univ, source, probe, others>>

----------------------------------------------------------------------------
(* US-ETF *)

\* USEtfDownloader.get_last_date_for_symbol; 0 stands for None
UsGetLastDateForSymbol(s) == MaxStoredDate(store[s])

\* the tuple built per row: get_val rounds to 2 decimals (the identity on
\* the integer prices modelled), a missing volume becomes 0
UsRecords(data) == {Record(row, row.adj) : row \in data}

\* INSERT ... ON CONFLICT (symbol, date) DO UPDATE SET close, adjusted_close,
\* volume = EXCLUDED.*
InsertDoUpdate(bag, records) ==
    LET Excluded(d) == CHOOSE rec \in records : rec.date = d
        kept == {row \in RowsOf(bag) : row.date \notin DatesOf(records)}
        updated == {[row EXCEPT !.close = Excluded(row.date).close,
                                !.adjusted_close = Excluded(row.date).adjusted_close,
                                !.volume = Excluded(row.date).volume] :
                        row \in {x \in RowsOf(bag) : x.date \in DatesOf(records)}}
        inserted == {rec \in records : rec.date \notin StoredDates(bag)}
        Keep[S \in SUBSET kept] ==
            IF S = {} THEN EmptyBag
            ELSE LET x == CHOOSE y \in S : TRUE
                 IN Keep[S \ {x}] (+) [e \in {x} |-> CopiesIn(x, bag)]
    IN Keep[kept] (+) SetToBag(updated) (+) SetToBag(inserted)

\* plain INSERT of a batch: a row whose (symbol, date) is already stored
\* violates the table's unique constraint and the statement raises
InsertRaises(bag, records) == DatesOf(records) \cap StoredDates(bag) # {}

InsertPlain(bag, records) == bag (+) SetToBag(records)

\* USEtfDownloader.update_daily_data(end_date)
StartUpdateDailyData(r, e) ==
    /\ univ = "us"
    /\ run[r].pc = "idle"
    /\ \E dbOk \in BOOLEAN :
         IF ~dbOk
         THEN run' = [run EXCEPT ![r] = [IdleRun EXCEPT !.op = "update_daily_data",
                         !.pc = "aborted", !.faulted = TRUE]]
         ELSE run' = [run EXCEPT ![r] = [IdleRun EXCEPT !.op = "update_daily_data",
                         !.pc = "loop", !.syms = us_etf_symbols, !.end = e]]
    /\ UNCHANGED <<univ, source, store, probe, others>>

\* for i, symbol in enumerate(self.etf_symbols, 1)
UsUpdLoop(r) ==
    /\ run[r].op = "update_daily_data"
    /\ run[r].pc = "loop"
    /\ IF run[r].i < Len(run[r].syms)
       THEN run' = [run EXCEPT ![r] = [FreshStep(@) EXCEPT !.i = @ + 1,
                        !.pc = "cursor",
                        !.processed = @ \cup {run[r].syms[run[r].i + 1]}]]
       ELSE run' = [run EXCEPT ![r].pc = "done"]
    /\ UNCHANGED <<univ, source, store, probe, others>>

\* 1. last date, start_fetch_date, the up-to-date check
UsUpdCursor(r) ==
    /\ run[r].op = "update_daily_data"
    /\ run[r].pc = "cursor"
    /\ \E dbOk \in BOOLEAN :
         IF ~dbOk
         THEN run' = [run EXCEPT ![r].fail = @ + 1, ![r].outcome = "fail",
                          ![r].faulted = TRUE, ![r].dbErr = TRUE,
                              ![r].pc = "loop"]
         ELSE LET last_date == UsGetLastDateForSymbol(Symbol(r))
                  start_fetch_date == IF last_date # 0 THEN last_date + 1 ELSE StartDate
                  target_date == run[r].end
              IN IF last_date # 0 /\ start_fetch_date > target_date
                 THEN run' = [run EXCEPT ![r].last = last_date,
                                  ![r].start = start_fetch_date,
                                  ![r].succ = @ + 1, ![r].outcome = "succ",
                                  ![r].pc = "loop"]
                 ELSE run' = [run EXCEPT ![r].last = last_date,
                                  ![r].start = start_fetch_date, ![r].pc = "fetch"]
    /\ UNCHANGED <<univ, source, store, probe, others>>

\* 2. one attempt of the retry loop around yf.download
UsUpdFetch(r) ==
    /\ run[r].op = "update_daily_data"
    /\ run[r].pc = "fetch"
    /\ \E sourceOk \in BOOLEAN :
         IF sourceOk
         THEN run' = [run EXCEPT ![r].fetched = TRUE,
                          ![r].data = History(Symbol(r), run[r].start, run[r].end + 1),
                          ![r].pc = "process"]
         ELSE run' = [run EXCEPT ![r].attempt = @ + 1, ![r].srcErrs = @ + 1, ![r].faulted = TRUE,
                          ![r].pc = IF run[r].attempt + 1 < MaxRetries
                                    THEN "fetch" ELSE "process"]
    /\ UNCHANGED <<univ, source, store, probe, others>>

\* the empty check and 3. the records, without rows dated <= last_date
UsUpdProcess(r) ==
    /\ run[r].op = "update_daily_data"
    /\ run[r].pc = "process"
    /\ IF ~run[r].fetched \/ run[r].data = {}
       THEN run' = [run EXCEPT ![r].succ = @ + 1, ![r].outcome = "succ",
                        ![r].pc = "loop"]
       ELSE LET records ==
                    {rec \in UsRecords(run[r].data) :
                         ~(run[r].last # 0 /\ rec.date <= run[r].last)}
            IN IF records # {}
               THEN run' = [run EXCEPT ![r].batch = records, ![r].pc = "save"]
               ELSE run' = [run EXCEPT ![r].succ = @ + 1, ![r].outcome = "succ",
                                ![r].pc = "sleep"]
    /\ UNCHANGED <<univ, source, store, probe, others>>

\* execute_batch(... ON CONFLICT DO UPDATE ...), conn.commit(); an exception
\* is caught by the per-symbol handler, which rolls back
UsUpdSave(r) ==
    /\ run[r].op = "update_daily_data"
    /\ run[r].pc = "save"
    /\ \E dbOk \in BOOLEAN :
         IF ~dbOk
         THEN /\ store' = store
              /\ run' = [run EXCEPT ![r].fail = @ + 1, ![r].outcome = "fail",
                              ![r].faulted = TRUE, ![r].dbErr = TRUE,
                              ![r].pc = "loop"]
         ELSE LET s == Symbol(r)
                  after == InsertDoUpdate(store[s], run[r].batch)
              IN /\ store' = [store EXCEPT ![s] = after]
                 /\ run' = [run EXCEPT ![r].succ = @ + 1, ![r].outcome = "succ",
                                 ![r].saved = TRUE, ![r].commits = @ + 1, ![r].wrote = RowsOf(after) \ RowsOf(store[s]),
                                 ![r].pc = "sleep"]
    /\ UNCHANGED <<univ, source, probe, others>>

\* time.sleep(0.5)
UsUpdSleep(r) ==
    /\ run[r].op = "update_daily_data"
    /\ run[r].pc = "sleep"
    /\ run' = [run EXCEPT ![r].pc = "loop"]
    /\ UNCHANGED <<univ, source, store, probe, others>>

\* USEtfDownloader.download_and_save_data()
StartDownloadAndSaveData(r) ==
    /\ univ = "us"
    /\ run[r].pc = "idle"
    /\ \E dbOk \in BOOLEAN :
         IF ~dbOk
         THEN run' = [run EXCEPT ![r] = [IdleRun EXCEPT !.op = "download_and_save_data",
                         !.pc = "aborted", !.faulted = TRUE]]
         ELSE run' = [run EXCEPT ![r] = [IdleRun EXCEPT !.op = "download_and_save_data",
                         !.pc = "loop", !.syms = us_etf_symbols, !.end = MaxDate]]
    /\ UNCHANGED <<univ, source, store, probe, others>>

\* for i, symbol in enumerate(self.etf_symbols, 1)
UsAllLoop(r) ==
    /\ run[r].op = "download_and_save_data"
    /\ run[r].pc = "loop"
    /\ IF run[r].i < Len(run[r].syms)
       THEN run' = [run EXCEPT ![r] = [FreshStep(@) EXCEPT !.i = @ + 1,
                        !.start = StartDate, !.pc = "fetch",
                        !.processed = @ \cup {run[r].syms[run[r].i + 1]}]]
       ELSE run' = [run EXCEPT ![r].pc = "done"]
    /\ UNCHANGED <<univ, source, store, probe, others>>

\* one attempt of the retry loop around yf.download(start=self.start_date,
\* end=None)
UsAllFetch(r) ==
    /\ run[r].op = "download_and_save_data"
    /\ run[r].pc = "fetch"
    /\ \E sourceOk \in BOOLEAN :
         IF sourceOk
         THEN run' = [run EXCEPT ![r].fetched = TRUE,
                          ![r].data = History(Symbol(r), StartDate, MaxDate + 1),
                          ![r].pc = "process"]
         ELSE run' = [run EXCEPT ![r].attempt = @ + 1, ![r].srcErrs = @ + 1, ![r].faulted = TRUE,
                          ![r].pc = IF run[r].attempt + 1 < MaxRetries
                                    THEN "fetch" ELSE "process"]
    /\ UNCHANGED <<univ, source, store, probe, others>>

\* the empty check and the records
UsAllProcess(r) ==
    /\ run[r].op = "download_and_save_data"
    /\ run[r].pc = "process"
    /\ IF ~run[r].fetched \/ run[r].data = {}
       THEN run' = [run EXCEPT ![r].fail = @ + 1, ![r].outcome = "fail",
                        ![r].pc = "loop"]
       ELSE run' = [run EXCEPT ![r].batch = UsRecords(run[r].data), ![r].pc = "save"]
    /\ UNCHANGED <<univ, source, store, probe, others>>

\* execute_batch(INSERT ...), conn.commit(); an exception is caught by the
\* per-symbol handler, which rolls back
UsAllSave(r) ==
    /\ run[r].op = "download_and_save_data"
    /\ run[r].pc = "save"
    /\ \E dbOk \in BOOLEAN :
         LET s == Symbol(r)
         IN IF ~dbOk \/ InsertRaises(store[s], run[r].batch)
            THEN /\ store' = store
                 /\ run' = [run EXCEPT ![r].fail = @ + 1, ![r].outcome = "fail",
                                 ![r].faulted = @ \/ ~dbOk, ![r].dbErr = TRUE, ![r].pc = "loop"]
            ELSE /\ store' = [store EXCEPT ![s] = InsertPlain(store[s], run[r].batch)]
                 /\ run' = [run EXCEPT ![r].succ = @ + 1, ![r].outcome = "succ",
                                 ![r].saved = TRUE, ![r].commits = @ + 1, ![r].wrote = run[r].batch, ![r].pc = "sleep"]
    /\ UNCHANGED <<univ, source, probe, others>>

\* time.sleep(0.5)
UsAllSleep(r) ==
    /\ run[r].op = "download_and_save_data"
    /\ run[r].pc = "sleep"
    /\ run' = [run EXCEPT ![r].pc = "loop"]
    /\ UNCHANGED <<univ, source, store, probe, others>>

\* USEtfDownloader.truncate_table()
TruncateTable ==
    /\ univ = "us"
    /\ \A r \in RunIds : run[r].pc = "idle"
    /\ \E s \in Symbols("us") : RowsOf(store[s]) # {}
    /\ store' = [s \in Symbols("us") |-> EmptyBag]
    /\ UNCHANGED <<univ, source, run, probe, others>>

----------------------------------------------------------------------------
\* the driver returns (or its exception reaches the caller)
Return(r) ==
    /\ run[r].pc \in {"done", "aborted"}
    /\ run' = [run EXCEPT ![r] = IdleRun]
    /\ UNCHANGED <<univ, source, store, probe, others>>

\* one step of the invocation r of a driver
Step(r) ==
    \/ \E e \in Dates : StartDownloadAllEtfs(r, e)
    \/ EtfAllLoop(r)
    \/ EtfAllCursor(r)
    \/ EtfAllMissing(r)
    \/ EtfAllFetch(r)
    \/ EtfAllProcess(r)
    \/ EtfAllSave(r)
    \/ EtfAllSleep(r)
    \/ \E ws \in Dates, e \in Dates : StartEtfUpdateMissingDates(r, ws, e)
    \/ EtfUpdLoop(r)
    \/ EtfUpdMissing(r)
    \/ EtfUpdFetch(r)
    \/ EtfUpdProcess(r)
    \/ EtfUpdSave(r)
    \/ EtfUpdSleep(r)
    \/ \E e \in Dates : StartStockUpdateMissingDates(r, e)
    \/ StockUpdLoop(r)
    \/ StockUpdCursor(r)
    \/ StockUpdMissing(r)
    \/ StockUpdFetch(r)
    \/ StockUpdProcess(r)
    \/ StockUpdSave(r)
    \/ StockUpdSleep(r)
    \/ \E e \in Dates : StartDownloadAllStocks(r, e)
    \/ StockAllLoop(r)
    \/ StockAllFetch(r)
    \/ StockAllProcess(r)
    \/ StockAllSave(r)
    \/ StockAllSleep(r)
    \/ \E ws \in {0} \cup Dates, e \in Dates : StartIndexUpdateMissingDates(r, ws, e)
    \/ IndexUpdCursor(r)
    \/ IndexUpdMissing(r)
    \/ IndexUpdFetch(r)
    \/ IndexUpdProcess(r)
    \/ IndexUpdSave(r)
    \/ \E e \in Dates : StartDownloadNifty50(r, e)
    \/ IndexAllFetch(r)
    \/ IndexAllProcess(r)
    \/ IndexAllSave(r)
    \/ \E e \in Dates : StartUpdateDailyData(r, e)
    \/ UsUpdLoop(r)
    \/ UsUpdCursor(r)
    \/ UsUpdFetch(r)
    \/ UsUpdProcess(r)
    \/ UsUpdSave(r)
    \/ UsUpdSleep(r)
    \/ StartDownloadAndSaveData(r)
    \/ UsAllLoop(r)
    \/ UsAllFetch(r)
    \/ UsAllProcess(r)
    \/ UsAllSave(r)
    \/ UsAllSleep(r)
    \/ Return(r)

Next ==
    \/ Step(1)
    \/ TruncateTable

Spec == Init /\ [][Next]_vars

----------------------------------------------------------------------------
(* The missing-date computation called on its own, from any state in which *)
(* no driver is running: up to two consecutive calls with the same         *)
(* arguments and no storage write between them.                            *)

\* get_missing_dates_for_symbol / get_missing_dates of the universe; db is
\* the outcome of its storage query, sourceOk that of its Source call
GetMissingDates(u, s, start, end, db, sourceOk) ==
    CASE u = "etf" -> EtfGetMissingDatesForSymbol(s, start, end, sourceOk)
      [] u = "stock" -> StockGetMissingDatesForSymbol(s, start, end, db)
      [] u = "index" -> IndexGetMissingDates(start, end, db)

CallGetMissingDates(s, ws, e) ==
    /\ univ \in {"etf", "stock", "index"}
    /\ \A r \in RunIds : run[r].pc = "idle"
    /\ Len(probe) < 2
    /\ Len(probe) = 1 =>
           probe[1].symbol = s /\ probe[1].start = ws /\ probe[1].end = e
    /\ \E db \in {"ok", "query_error"}, sourceOk \in BOOLEAN :
         \* the ETF version has no handler for a storage error: it raises
         /\ univ = "etf" => db = "ok"
         /\ univ # "etf" => sourceOk
         /\ probe' = Append(probe,
                [symbol |-> s, start |-> ws, end |-> e, dbOk |-> (db = "ok"),
                 sourceOk |-> sourceOk, stored |-> StoredDates(store[s]),
                 result |-> GetMissingDates(univ, s, ws, e, db, sourceOk)])
    /\ UNCHANGED <<univ, source, store, run, others>>

NextMissing ==
    \/ probe = <<>> /\ Next
    \/ \E s \in Symbols(univ), ws \in Dates, e \in Dates : CallGetMissingDates(s, ws, e)

SpecMissing == Init /\ [][NextMissing]_vars

\* The missing-date computation called for the whole window of the first
\* configured symbol, once at any moment between runs and once more after
\* later runs may have populated storage.
\* (the Source has rows for the probed symbol only)
InitShrink ==
    /\ Init
    /\ univ \in {"etf", "stock", "index"}
    /\ \A k \in 2..Len(SymbolList(univ)) : source[SymbolList(univ)[k]] = {}

NextShrink ==
    \/ Len(probe) < 2 /\ Next
    \/ CallGetMissingDates(SymbolList(univ)[1], StartDate, MaxDate)

SpecShrink == InitShrink /\ [][NextShrink]_vars

\* The Stock-India drivers over a window that holds a weekend: day 5 is
\* Friday 2001-01-05, day 6 a Saturday (the exchange holds special Saturday
\* sessions, for which the Source has rows) and day 8 the Monday after it.
WeekendDays == {5, 6, 8}

InitWeekend ==
    /\ univ = "stock"
    /\ source \in [Symbols("stock") -> {GoodRows(T) : T \in SUBSET WeekendDays}]
    /\ source[stock_symbols[2]] = {}
    /\ store = [s \in Symbols("stock") |-> EmptyBag]
    /\ run = [r \in RunIds |-> IdleRun]
    /\ probe = <<>>
    /\ OthersIdle

NextWeekend ==
    \/ \E e \in WeekendDays : StartDownloadAllStocks(1, e)
    \/ \E e \in WeekendDays : StartStockUpdateMissingDates(1, e)
    \/ run[1].pc # "idle" /\ Step(1)

SpecWeekend == InitWeekend /\ [][NextWeekend]_vars

----------------------------------------------------------------------------
(* Two invocations of update_daily_data running at the same time (two
   scheduler triggers that overlap), while the provider revises a bar it has
   already published *)

\* the provider replaces the values of one published bar
ReviseSource ==
    /\ \E s \in Symbols(univ), d \in Dates :
         /\ SourceRow(d, 1) \in source[s]
         /\ source' = [source EXCEPT ![s] = (@ \ {SourceRow(d, 1)}) \cup {SourceRow(d, 2)}]
    /\ UNCHANGED <<univ, store, run, probe, others>>

\* the days the overlapping runs are about
OverlapDays == 1..2

InitOverlap ==
    /\ univ = "us"
    /\ source \in [Symbols("us") -> {GoodRows(T) : T \in SUBSET OverlapDays}]
    /\ source[us_etf_symbols[2]] = {}
    /\ store = [s \in Symbols("us") |-> EmptyBag]
    /\ run = [r \in RunIds |-> IdleRun]
    /\ probe = <<>>
    /\ OthersIdle

NextOverlap ==
    \/ \E r \in RunIds, e \in OverlapDays : StartUpdateDailyData(r, e)
    \/ \E r \in RunIds : run[r].pc # "idle" /\ Step(r)
    \/ ReviseSource

SpecOverlap == InitOverlap /\ [][NextOverlap]_vars

----------------------------------------------------------------------------
(* Two invocations of the same downloader running at the same time: the ETF
   incremental download, or the US full download *)

InitTwoRuns ==
    /\ univ \in {"etf", "us"}
    /\ source \in [Symbols(univ) -> {GoodRows(T) : T \in SUBSET OverlapDays}]
    /\ source[SymbolList(univ)[2]] = {}
    /\ store = [s \in Symbols(univ) |-> EmptyBag]
    /\ run = [r \in RunIds |-> IdleRun]
    /\ probe = <<>>
    /\ OthersIdle

NextTwoRuns ==
    \/ \E r \in RunIds, e \in OverlapDays : StartDownloadAllEtfs(r, e)
    \/ \E r \in RunIds : StartDownloadAndSaveData(r)
    \/ \E r \in RunIds : run[r].pc # "idle" /\ Step(r)

SpecTwoRuns == InitTwoRuns /\ [][NextTwoRuns]_vars

----------------------------------------------------------------------------
(* An invocation stopped by the operator (KeyboardInterrupt reaches the
   handler of the script's main block), followed by a later invocation *)

\* the interrupt arrives while invocation r executes; a transaction that
\* has not committed is discarded with its connection
Interrupt(r) ==
    /\ run[r].pc \notin {"idle", "done", "aborted", "interrupted"}
    /\ run' = [run EXCEPT ![r].pc = "interrupted"]
    /\ UNCHANGED <<univ, source, store, probe, others>>

InitInterrupt ==
    /\ univ \in Universes
    /\ source = [s \in Symbols(univ) |-> GoodRows(OverlapDays)]
    /\ store = [s \in Symbols(univ) |-> EmptyBag]
    /\ run = [r \in RunIds |-> IdleRun]
    /\ probe = <<>>
    /\ OthersIdle

\* invocation 2 is the one interrupted, invocation 1 the one that follows
NextInterrupt ==
    \/ run[2].pc \notin {"interrupted", "done", "aborted"} /\ Step(2)
    \/ Interrupt(2)
    \/ run[2].pc = "interrupted" /\ run[1].pc \notin {"done", "aborted"} /\ Step(1)

SpecInterrupt == InitInterrupt /\ [][NextInterrupt]_vars

----------------------------------------------------------------------------
(* A Source whose DataFrame has a row without a close: yfinance returns NaN
   in the cells it has no value for *)

\* NaN in a DataFrame cell and None (NULL) in a record: every comparison
\* NaN < 0, NaN <= 0, NaN == 0 the validators make is False, which holds of
\* this value too; pd.notna(x) is x # NoValue
NoValue == 99

InitNoValue ==
    /\ univ \in Universes
    /\ source \in [Symbols(univ) -> {{}, GoodRows({1}) \cup {SourceRow(2, NoValue)}}]
    /\ source[SymbolList(univ)[1]] # {}
    /\ store = [s \in Symbols(univ) |-> EmptyBag]
    /\ run = [r \in RunIds |-> IdleRun]
    /\ probe = <<>>
    /\ OthersIdle

NextNoValue == univ \in Universes /\ Step(1)

SpecNoValue == InitNoValue /\ [][NextNoValue]_vars

----------------------------------------------------------------------------
(* Incremental runs whose end_date may lie before the floor date (day 0 is
   the day before self.start_date) *)

EndDays == 0..2

InitEarlyEnd ==
    /\ univ \in Universes
    /\ source = [s \in Symbols(univ) |-> GoodRows(OverlapDays)]
    /\ store = [s \in Symbols(univ) |-> EmptyBag]
    /\ run = [r \in RunIds |-> IdleRun]
    /\ probe = <<>>
    /\ OthersIdle

NextEarlyEnd ==
    \/ \E e \in EndDays : StartDownloadAllEtfs(1, e)
    \/ \E e \in EndDays : StartStockUpdateMissingDates(1, e)
    \/ \E e \in EndDays : StartIndexUpdateMissingDates(1, 0, e)
    \/ \E e \in EndDays : StartUpdateDailyData(1, e)
    \/ run[1].pc # "idle" /\ Step(1)

SpecEarlyEnd == InitEarlyEnd /\ [][NextEarlyEnd]_vars

----------------------------------------------------------------------------
(* Market_Data/run_all_data_fetchers.py: run_all_fetchers *)

\* the universes of the three fetchers, in the order of the three steps
Fetchers == <<"us", "etf", "index">>

\* the keys of results
ResultKeys == <<"us_etf", "indian_etf", "nifty50">>

\* the rows a universe's table holds when run_all_fetchers is called: none,
\* or the first day for the first symbol
TableChoices(u) ==
    {[s \in Symbols(u) |-> EmptyBag],
     [s \in Symbols(u) |->
         IF s = SymbolList(u)[1] THEN SetToBag({Record(SourceRow(1, 1), 1)})
         ELSE EmptyBag]}

\* the step's downloader works on its own universe's table and Source
EnterStep(k) ==
    /\ univ' = Fetchers[k]
    /\ source' = fetchers.sources[Fetchers[k]]
    /\ store' = fetchers.tables[Fetchers[k]]

\* run_all_fetchers(start_date, end_date): results, then STEP 1/3
CallRunAllFetchers(start_date, end_date) ==
    /\ fetchers.pc = "idle"
    /\ run[1].pc = "idle"
    /\ fetchers' = [fetchers EXCEPT !.pc = "step1",
                        !.start_date = start_date, !.end_date = end_date,
                        !.results = [k \in 1..3 |-> [success |-> FALSE, error |-> FALSE]],
                        !.steps = <<ResultKeys[1]>>]
    /\ EnterStep(1)
    /\ UNCHANGED <<run, probe, calendar, generator, executor>>

\* us_downloader.end_date = end_date; us_downloader.update_daily_data():
\* the call passes no end_date, so the update runs up to today
StartStep1 ==
    /\ fetchers.pc = "step1"
    /\ StartUpdateDailyData(1, MaxDate)

\* etf_downloader.update_missing_dates(start_date=start_date, end_date=end_date)
StartStep2 ==
    /\ fetchers.pc = "step2"
    /\ StartEtfUpdateMissingDates(1, fetchers.start_date, fetchers.end_date)

\* index_downloader.update_missing_dates(start_date=start_date, end_date=end_date)
StartStep3 ==
    /\ fetchers.pc = "step3"
    /\ StartIndexUpdateMissingDates(1, fetchers.start_date, fetchers.end_date)

\* the fetcher of step k is at work
InsideStep ==
    /\ fetchers.pc \in {"step1", "step2", "step3"}
    /\ run[1].pc \notin {"idle", "done", "aborted"}
    /\ Step(1)

\* the end of the try block of step k: results[key]['success'] = True when
\* the fetcher returned, results[key]['error'] when it raised
Outcome(k) ==
    [fetchers.results EXCEPT ![k] = [success |-> run[1].pc = "done",
                                     error |-> run[1].pc = "aborted"]]

\* the same step without the except clause: a fetcher that raised ends the call
EndStepReraise(k) ==
    /\ fetchers.pc = <<"step1", "step2">>[k]
    /\ run[1].pc \in {"done", "aborted"}
    /\ IF run[1].pc = "aborted"
       THEN /\ fetchers' = [fetchers EXCEPT !.pc = "returned",
                                !.results = Outcome(k),
                                !.tables[Fetchers[k]] = store,
                                !.all_success = FALSE]
            /\ UNCHANGED <<univ, source, store>>
       ELSE /\ fetchers' = [fetchers EXCEPT !.pc = <<"step2", "step3">>[k],
                                !.results = Outcome(k),
                                !.tables[Fetchers[k]] = store,
                                !.steps = Append(@, ResultKeys[k + 1])]
            /\ EnterStep(k + 1)
    /\ run' = [run EXCEPT ![1] = IdleRun]
    /\ UNCHANGED <<probe, calendar, generator, executor>>

\* step k < 3 ends, either way, and the next step begins
EndStep(k) ==
    /\ fetchers.pc = <<"step1", "step2">>[k]
    /\ run[1].pc \in {"done", "aborted"}
    /\ fetchers' = [fetchers EXCEPT !.pc = <<"step2", "step3">>[k],
                        !.results = Outcome(k),
                        !.tables[Fetchers[k]] = store,
                        !.steps = Append(@, ResultKeys[k + 1])]
    /\ run' = [run EXCEPT ![1] = IdleRun]
    /\ EnterStep(k + 1)
    /\ UNCHANGED <<probe, calendar, generator, executor>>

\* step 3 ends, the summary, return all_success
EndStep3 ==
    /\ fetchers.pc = "step3"
    /\ run[1].pc \in {"done", "aborted"}
    /\ fetchers' = [fetchers EXCEPT !.pc = "returned",
                        !.results = Outcome(3),
                        !.tables[Fetchers[3]] = store,
                        !.all_success = \A k \in 1..3 : Outcome(3)[k].success]
    /\ run' = [run EXCEPT ![1] = IdleRun]
    /\ UNCHANGED <<univ, source, store, probe, calendar, generator, executor>>

\* the three tables as run_all_fetchers finds them; every symbol has the
\* whole window at the Source
InitFetchers ==
    /\ univ = "us"
    /\ fetchers \in [pc : {"idle"}, start_date : {0}, end_date : {0},
                     results : {<<>>}, steps : {<<>>}, all_success : {FALSE},
                     sources : {[u \in SeqToSet(Fetchers) |->
                                    [s \in Symbols(u) |-> GoodRows(Dates)]]},
                     tables : {t \in [SeqToSet(Fetchers) ->
                                        UNION {TableChoices(u) : u \in SeqToSet(Fetchers)}] :
                                  \A u \in SeqToSet(Fetchers) : t[u] \in TableChoices(u)}]
    /\ source = fetchers.sources["us"]
    /\ store = fetchers.tables["us"]
    /\ run = [r \in RunIds |-> IdleRun]
    /\ probe = <<>>
    /\ calendar = NoCalendarCall
    /\ generator = NoGeneratorCall
    /\ ExecutorIdle

NextFetchers ==
    \/ \E start_date \in Dates, end_date \in Dates :
           start_date <= end_date /\ CallRunAllFetchers(start_date, end_date)
    \/ StartStep1
    \/ StartStep2
    \/ StartStep3
    \/ InsideStep
    \/ \E k \in 1..2 : EndStep(k)
    \/ EndStep3

SpecFetchers == InitFetchers /\ [][NextFetchers]_vars

----------------------------------------------------------------------------
(* The downloaders at rest, for the behaviours of the other programs *)

DownloadersIdle ==
    /\ univ = "index"
    /\ source = [s \in Symbols("index") |-> {}]
    /\ store = [s \in Symbols("index") |-> EmptyBag]
    /\ run = [r \in RunIds |-> IdleRun]
    /\ probe = <<>>

downloaders == <<univ, source, store, run, probe>>

----------------------------------------------------------------------------
(* utils/trading_calendar.py: TradingCalendar *)

max_iterations == 30            \* get_next_trading_day: "Prevent infinite loop"
MaxCalDate == 3                 \* last day a call is made for
MaxHoliday == 36                \* last day a holiday list may name

\* date.weekday(): day 1 is a Monday, Monday is 0
Weekday(d) == (d - 1) % 7

\* self.weekend_days as the configuration may give it
WeekendChoices == {{5, 6}, {6}}

\* self.holidays: the listed days (a day stands for its '%Y-%m-%d' string);
\* the lists tried are the runs of consecutive days
HolidayLists == {a..b : a \in 1..5, b \in 0..MaxHoliday}

\* TradingCalendar.is_weekend
IsWeekend(cal, d) == Weekday(d) \in cal.weekend_days

\* TradingCalendar.is_holiday
IsHoliday(cal, d) == d \in cal.holidays

\* TradingCalendar.is_trading_day
IsTradingDay(cal, d) == ~IsWeekend(cal, d) /\ ~IsHoliday(cal, d)

\* the while loop of get_next_trading_day
RECURSIVE NextTradingDayLoop(_, _, _)
NextTradingDayLoop(cal, next_day, iterations) ==
    IF ~IsTradingDay(cal, next_day) /\ iterations < max_iterations
    THEN NextTradingDayLoop(cal, next_day + 1, iterations + 1)
    ELSE next_day

\* TradingCalendar.get_next_trading_day(date)
GetNextTradingDay(cal, date) == NextTradingDayLoop(cal, date + 1, 0)

\* a caller asks the calendar for the trading day after date
CallGetNextTradingDay(date) ==
    /\ calendar.pc = "loaded"
    /\ calendar' = [calendar EXCEPT !.pc = "returned", !.date = date,
                        !.next_day = GetNextTradingDay(calendar, date)]
    /\ UNCHANGED <<downloaders, generator, fetchers, executor>>

\* TradingCalendar(): load_calendar has read the holidays and weekend days
InitCalendar ==
    /\ DownloadersIdle
    /\ generator = NoGeneratorCall
    /\ fetchers = NoFetchersCall
    /\ ExecutorIdle
    /\ calendar \in [pc : {"loaded"}, holidays : HolidayLists,
                     weekend_days : WeekendChoices, date : {0}, next_day : {0}]

NextCalendar == \E date \in 1..MaxCalDate : CallGetNextTradingDay(date)

SpecCalendar == InitCalendar /\ [][NextCalendar]_vars

----------------------------------------------------------------------------
(* Strategies/Rotation_ETF/services/signal_generator.py *)

MaxTickers == 4                 \* rows of the metrics table at most
MaxWeeks == 2                   \* largest accumulation_weeks tried

Tickers == [k \in 1..MaxTickers |-> k]

\* price, high_52w, low_52w of one row of calculate_52week_metrics: the
\* window holds the latest close, so low_52w <= price <= high_52w
MetricChoices ==
    {[price |-> 1, high_52w |-> 2, low_52w |-> 1],
     [price |-> 2, high_52w |-> 2, low_52w |-> 1],
     [price |-> 2, high_52w |-> 3, low_52w |-> 2]}

\* the metrics tables: one row per ticker that had enough data, in the
\* order of the tickers
RECURSIVE MetricsTables(_)
MetricsTables(k) ==
    IF k = 0 THEN {<<>>}
    ELSE LET shorter == MetricsTables(k - 1)
         IN shorter \cup
            {Append(t, [symbol |-> Tickers[k], price |-> m.price,
                        high_52w |-> m.high_52w, low_52w |-> m.low_52w]) :
                 t \in shorter, m \in MetricChoices}

\* the column of row a is at most that of row b; the distances
\* (price - low_52w) / low_52w * 100 and (high_52w - price) / high_52w * 100
\* are compared without the division
Closer(column, a, b) ==
    IF column = "distance_from_low_pct"
    THEN (a.price - a.low_52w) * b.low_52w <= (b.price - b.low_52w) * a.low_52w
    ELSE (a.high_52w - a.price) * b.high_52w <= (b.high_52w - b.price) * a.high_52w

\* metrics_df.sort_values(column, ascending=True): the orders of the rows the
\* sort may return (rows of equal distance in either order)
SortValues(df, column) ==
    {[k \in 1..Len(df) |-> df[perm[k]]] :
        perm \in {q \in [1..Len(df) -> 1..Len(df)] :
                     /\ \A x, y \in 1..Len(df) : x # y => q[x] # q[y]
                     /\ \A x, y \in 1..Len(df) :
                            x < y => Closer(column, df[q[x]], df[q[y]])}}

\* df.head(n)
DfHead(df, n) == SubSeq(df, 1, IF Len(df) < n THEN Len(df) ELSE n)

\* the signal appended for one row
Signal(row, side) == [symbol |-> row.symbol, side |-> side]

Sides(rows, side) == [k \in 1..Len(rows) |-> Signal(rows[k], side)]

\* LiveETFSignalGenerator.generate_signals(metrics_df, accumulation_weeks)
GenerateSignals ==
    /\ generator.pc = "called"
    /\ \E buy_candidates \in SortValues(generator.metrics_df, "distance_from_low_pct"),
          sell_candidates \in SortValues(generator.metrics_df, "distance_from_high_pct") :
         generator' = [generator EXCEPT !.pc = "returned",
             !.signals =
                 Sides(DfHead(buy_candidates, 1), "BUY")
                 \o (IF generator.accumulation_weeks <= 0
                     THEN Sides(DfHead(sell_candidates, 3), "SELL")
                     ELSE <<>>)]
    /\ UNCHANGED <<downloaders, calendar, fetchers, executor>>

\* run_weekly_signal_generation has a non-empty metrics table and the
\* strategy's accumulation_weeks and calls generate_signals
InitGenerator ==
    /\ DownloadersIdle
    /\ calendar = NoCalendarCall
    /\ fetchers = NoFetchersCall
    /\ ExecutorIdle
    /\ generator \in [pc : {"called"},
                      metrics_df : MetricsTables(MaxTickers) \ {<<>>},
                      accumulation_weeks : (0 - 1)..MaxWeeks,
                      signals : {<<>>}]

NextGenerator == GenerateSignals

SpecGenerator == InitGenerator /\ [][NextGenerator]_vars

----------------------------------------------------------------------------
(* signal_executor.py: SignalExecutor, and the execute endpoint of api.py *)

MaxSignals == 3                 \* rows of the signal tables
MaxCalls == 2                   \* signal-execution calls made by one caller

SignalIds == 1..MaxSignals
ExecIds == {1, 2}
Kinds == {"etf", "stock"}       \* etf_signal / stock_signal and their strategy tables
Users == {"u1", "u2"}
StrategyNames == {"rotation"}

\* what requests.post may do: an answer of 200 or 201, another answer, an exception
PostOutcomes == {"200", "201", "500", "exception"}

\* no call in progress
IdleExec ==
    [op |-> "none", pc |-> "idle", kind |-> "etf", groups |-> <<>>, g |-> 0, k |-> 0,
     success |-> FALSE, success_count |-> 0,
     \* history: calls made, the strategy tables when the call began, the
     \* groups of the call in which a webhook succeeded
     calls |-> 0, before |-> <<>>, succeeded |-> {}]

\* key = (signal['user_id'], signal['strategy_name'])
KeyOf(id) == <<signals[id].user_id, signals[id].strategy_name>>

\* the ids in ascending order, as query.all() lists them
IdList(S) == Sorted(S)

\* fetch_etf_signals / fetch_stock_signals(user_id): the pending signals of
\* the table, of the user when one is given; [] when the query raises
FetchSignals(kind, user_id, dbOk) ==
    IF ~dbOk THEN <<>>
    ELSE IdList({id \in SignalIds :
                    /\ signals[id].kind = kind
                    /\ signals[id].execution_status = "pending"
                    /\ user_id \in {"", signals[id].user_id}})

\* the keys of signal_groups in the order they were inserted
RECURSIVE GroupKeys(_)
GroupKeys(ids) ==
    IF ids = <<>> THEN <<>>
    ELSE LET earlier == GroupKeys(SubSeq(ids, 1, Len(ids) - 1))
             key == KeyOf(ids[Len(ids)])
         IN IF key \in SeqToSet(earlier) THEN earlier ELSE Append(earlier, key)

\* signal_groups: for each key the signals of the key
SignalGroups(ids) ==
    [g \in 1..Len(GroupKeys(ids)) |->
        SelectSeq(ids, LAMBDA id : KeyOf(id) = GroupKeys(ids)[g])]

\* the signal the call e is working on
Current(e) == exec[e].groups[exec[e].g][exec[e].k]

\* execute_etf_signals() / execute_stock_signals(): step 1 and the grouping
ExecuteSignals(e, kind) ==
    /\ exec[e].pc = "idle"
    /\ exec[e].calls < MaxCalls
    /\ \E dbOk \in BOOLEAN :
         LET fetched == FetchSignals(kind, "", dbOk)
         IN exec' = [exec EXCEPT ![e] = [IdleExec EXCEPT
                        !.op = "execute_signals", !.kind = kind,
                        !.calls = exec[e].calls + 1, !.before = strategies,
                        !.groups = SignalGroups(fetched),
                        !.g = 1, !.k = 1,
                        !.pc = IF fetched = <<>> THEN "done" ELSE "prepare"]]
    /\ UNCHANGED <<downloaders, calendar, generator, fetchers, signals, strategies, posts>>

\* the call moves past the signal it worked on: the next signal of the
\* group, or the group's end
AfterSignal(rec) ==
    IF rec.k < Len(rec.groups[rec.g])
    THEN [rec EXCEPT !.k = @ + 1, !.pc = "prepare"]
    ELSE IF rec.op = "execute_signals" /\ rec.success_count > 0
         THEN [rec EXCEPT !.pc = "update"]
         ELSE IF rec.g < Len(rec.groups)
              THEN [rec EXCEPT !.g = @ + 1, !.k = 1, !.success_count = 0, !.pc = "prepare"]
              ELSE [rec EXCEPT !.pc = "done"]

\* step 2: prepare_webhook_json returns the payload, or None (no LTP, invalid
\* client_json, no client with a quantity) and the signal is passed over
PrepareWebhookJson(e) ==
    /\ exec[e].pc = "prepare"
    /\ \E webhook_json \in BOOLEAN :
         exec' = [exec EXCEPT ![e] =
                     IF webhook_json THEN [@ EXCEPT !.pc = "post"]
                     ELSE AfterSignal(@)]
    /\ UNCHANGED <<downloaders, calendar, generator, fetchers, signals, strategies, posts>>

\* step 3: execute_webhook POSTs the payload
ExecuteWebhook(e) ==
    /\ exec[e].pc = "post"
    /\ \E outcome \in PostOutcomes :
         LET success == outcome \in {"200", "201"}
             key == KeyOf(Current(e))
         IN exec' = [exec EXCEPT ![e] =
                [@ EXCEPT !.success = success,
                          !.succeeded = IF success THEN @ \cup {key} ELSE @,
                          !.pc = IF exec[e].op = "execute_signals" THEN "mark"
                                 ELSE IF success THEN "update" ELSE "next"]]
    /\ posts' = [posts EXCEPT ![Current(e)] = @ + 1]
    /\ UNCHANGED <<downloaders, calendar, generator, fetchers, signals, strategies>>

\* mark_etf_signal_executed / mark_stock_signal_executed(signal_id, success),
\* which logs and swallows an error of the database; then the success count
MarkSignalExecuted(e) ==
    /\ exec[e].op = "execute_signals"
    /\ exec[e].pc = "mark"
    /\ \E dbOk \in BOOLEAN :
         signals' = IF dbOk
                    THEN [signals EXCEPT ![Current(e)].execution_status =
                             IF exec[e].success THEN "executed" ELSE "failed"]
                    ELSE signals
    /\ exec' = [exec EXCEPT ![e] =
                   AfterSignal([@ EXCEPT !.success_count =
                                    IF exec[e].success THEN @ + 1 ELSE @])]
    /\ UNCHANGED <<downloaders, calendar, generator, fetchers, strategies, posts>>

\* update_etf_strategy / update_stock_strategy(user_id, strategy_name):
\* accumulation_weeks - 1, or an error of the database logged and swallowed
UpdateStrategy(kind, key, dbOk) ==
    IF dbOk /\ <<kind, key[1], key[2]>> \in DOMAIN strategies
    THEN [strategies EXCEPT ![<<kind, key[1], key[2]>>].accumulation_weeks = @ - 1]
    ELSE strategies

\* if success_count > 0: the strategy of the group is updated
UpdateGroupStrategy(e) ==
    /\ exec[e].op = "execute_signals"
    /\ exec[e].pc = "update"
    /\ \E dbOk \in BOOLEAN :
         strategies' = UpdateStrategy(exec[e].kind, KeyOf(Current(e)), dbOk)
    /\ exec' = [exec EXCEPT ![e] =
                   IF exec[e].g < Len(exec[e].groups)
                   THEN [@ EXCEPT !.g = @ + 1, !.k = 1, !.success_count = 0,
                                  !.pc = "prepare"]
                   ELSE [@ EXCEPT !.pc = "done"]]
    /\ UNCHANGED <<downloaders, calendar, generator, fetchers, signals, posts>>

\* api.py execute_user_signals(user_id): the user's pending ETF signals, then
\* the user's pending stock signals, one after the other
ExecuteUserSignals(e, user_id) ==
    /\ exec[e].pc = "idle"
    /\ exec[e].calls < MaxCalls
    /\ \E etfOk \in BOOLEAN, stockOk \in BOOLEAN :
         LET etf_signals == FetchSignals("etf", user_id, etfOk)
             stock_signals == FetchSignals("stock", user_id, stockOk)
             lists == SelectSeq(<<etf_signals, stock_signals>>, LAMBDA l : l # <<>>)
         IN exec' = [exec EXCEPT ![e] = [IdleExec EXCEPT
                        !.op = "execute_user_signals",
                        !.calls = exec[e].calls + 1, !.before = strategies,
                        !.groups = lists, !.g = 1, !.k = 1,
                        !.pc = IF lists = <<>> THEN "done" ELSE "prepare"]]
    /\ UNCHANGED <<downloaders, calendar, generator, fetchers, signals, strategies, posts>>

\* if _process_single_signal(signal): the strategy of the signal is updated;
\* the signal's row is not touched
UpdateSignalStrategy(e) ==
    /\ exec[e].op = "execute_user_signals"
    /\ exec[e].pc \in {"update", "next"}
    /\ \E dbOk \in BOOLEAN :
         strategies' = IF exec[e].pc = "update"
                       THEN UpdateStrategy(signals[Current(e)].kind, KeyOf(Current(e)), dbOk)
                       ELSE strategies
    /\ exec' = [exec EXCEPT ![e] = AfterSignal(@)]
    /\ UNCHANGED <<downloaders, calendar, generator, fetchers, signals, posts>>

\* the call returns
ReturnExec(e) ==
    /\ exec[e].pc = "done"
    /\ exec' = [exec EXCEPT ![e].pc = "idle"]
    /\ UNCHANGED <<downloaders, calendar, generator, fetchers, signals, strategies, posts>>

\* one step of the signal-execution call e
StepExec(e) ==
    \/ \E kind \in Kinds : ExecuteSignals(e, kind)
    \/ \E user_id \in Users : ExecuteUserSignals(e, user_id)
    \/ PrepareWebhookJson(e)
    \/ ExecuteWebhook(e)
    \/ MarkSignalExecuted(e)
    \/ UpdateGroupStrategy(e)
    \/ UpdateSignalStrategy(e)
    \/ ReturnExec(e)

\* the signal generator has saved pending signals for running strategies
SignalTables ==
    {t \in [SignalIds -> [kind : Kinds, user_id : Users, strategy_name : StrategyNames,
                          execution_status : {"pending"}]] :
        /\ t[1].kind = "etf" /\ t[1].user_id = "u1"
        /\ t[2].kind = "etf"}

InitExecutor ==
    /\ DownloadersIdle
    /\ calendar = NoCalendarCall
    /\ generator = NoGeneratorCall
    /\ fetchers = NoFetchersCall
    /\ signals \in SignalTables
    /\ strategies = [key \in Kinds \X Users \X StrategyNames |-> [accumulation_weeks |-> 2]]
    /\ posts = [id \in SignalIds |-> 0]
    /\ exec = [e \in ExecIds |-> IdleExec]

\* the scheduler's job and the API's requests, one call at a time
NextExecutor == StepExec(1)

SpecExecutor == InitExecutor /\ [][NextExecutor]_vars

\* two callers at once, the scheduler's process and a request of the API's
\* execute-all endpoint: each calls execute_etf_signals once
InitTwoExecutors ==
    /\ InitExecutor
    /\ signals[3].kind = "stock"

NextTwoExecutors ==
    \/ \E e \in ExecIds : exec[e].calls = 0 /\ ExecuteSignals(e, "etf")
    \/ \E e \in ExecIds : exec[e].pc \notin {"idle", "done"} /\ StepExec(e)

SpecTwoExecutors == InitTwoExecutors /\ [][NextTwoExecutors]_vars

----------------------------------------------------------------------------
(* Claims *)

\* the drivers that resolve each symbol's window from its cursor
IncrementalOps ==
    {"download_all_etfs", "stock_update_missing_dates", "index_update_missing_dates",
     "update_daily_data"}

Incremental(r) ==
    /\ run[r].op \in IncrementalOps
    /\ run[r].op = "index_update_missing_dates" => run[r].wstart = 0

\* the symbol's iteration has ended (the loop head, the rate-limit delay or
\* the return is next)
StepEnded(r) == run[r].pc \in {"loop", "sleep", "done"}

\* C1: after any number of runs of any downloader, storage holds at most
\* one DailyBar for every (symbol, date) pair.
C1_AtMostOneBarPerSymbolDate ==
    \A s \in Symbols(univ) : \A d \in StoredDates(store[s]) : CountFor(store[s], d) <= 1

\* a run has just persisted rows for a symbol from a fetch that also
\* returned rows for dates the table already held (an overlapping window)
C1_Witness ==
    /\ run[1].saved
    /\ run[1].wrote # {}
    /\ DatesOf(run[1].data) \cap (StoredDates(store[Symbol(1)]) \ DatesOf(run[1].wrote)) # {}

\* C2: in the ETF-India, Stock-India and Index downloaders, once the
\* fetch-and-persist step for a computed missing-date set has completed
\* successfully, recomputing the missing dates over the same window (Source
\* unchanged and answering) returns the empty sequence.
C2_ConvergenceAfterPersist ==
    (/\ univ \in {"etf", "stock", "index"}
     /\ run[1].op \in {"download_all_etfs", "etf_update_missing_dates",
                       "stock_update_missing_dates", "index_update_missing_dates"}
     /\ run[1].saved)
        => GetMissingDates(univ, Symbol(1), run[1].start, run[1].end, "ok", TRUE) = <<>>

\* C3 (for symbols whose Source rows up to end_date all pass validation):
\* when a download_all_etfs(end_date) run in which neither Source nor
\* storage failed has returned, storage holds a bar for every date
\* d <= end_date for which Source has a row of the symbol.
C3_NoDateLeftMissing ==
    (run[1].op = "download_all_etfs" /\ run[1].pc = "done" /\ ~run[1].faulted)
        => \A s \in Symbols("etf") :
               EtfValidateData(History(s, StartDate, run[1].end + 1))
                   => \A d \in DatesOf(History(s, StartDate, run[1].end + 1)) :
                          d \in StoredDates(store[s])

\* the drivers that report successful/failed counts (the Index driver
\* handles one symbol and keeps no counters)
KeepsCounters(r) == run[r].op # "index_update_missing_dates"

\* C4: in every incremental driver, a fetched batch that contains a row
\* with a negative close is rejected as a whole: none of its rows is
\* persisted and the symbol is counted as failed (where the driver counts).
C4_NegativeCloseBatchRejected ==
    (/\ Incremental(1)
     /\ StepEnded(1)
     /\ run[1].fetched
     /\ \E row \in run[1].data : row.close < 0)
        => /\ run[1].wrote = {}
           /\ KeepsCounters(1) => run[1].outcome = "fail"

\* C5: a per-universe run ends only after every symbol it iterates has
\* been processed, whatever failed for an earlier symbol.
C5_RunNeverAbortsEarly ==
    run[1].pc \in {"done", "aborted"} => run[1].processed = SeqToSet(run[1].syms)

\* C6: for a symbol with at least one persisted bar, the start of the
\* incremental fetch window is (maximum persisted date) + 1.
C6_StartIsCursorPlusOne ==
    (/\ Incremental(1)
     /\ run[1].pc \in {"missing", "fetch", "process", "save"}
     /\ MaxStoredDate(store[Symbol(1)]) # 0)
        => run[1].start = MaxStoredDate(store[Symbol(1)]) + 1

\* C7: in an incremental update, a configured symbol with no persisted bar
\* gets the floor date as the start of its window and is not left out of
\* the run.
C7_NoBarSymbolStartsAtFloor ==
    Incremental(1) =>
        /\ (run[1].pc \in {"missing", "fetch", "process", "save"}
               /\ RowsOf(store[Symbol(1)]) = {}) => run[1].start = StartDate
        /\ (run[1].pc = "done" /\ ~run[1].faulted) =>
               \A s \in Symbols(univ) : RowsOf(store[s]) = {} => s \in run[1].processed

\* C8: ETFDataDownloader.get_missing_dates_for_symbol(symbol, start, end)
\* returns exactly the dates of [start, end] for which Source has a row and
\* storage has no bar for the symbol, ascending and without duplicates.
C8_MissingIsTradedMinusExisting ==
    univ = "etf" =>
        \A k \in 1..Len(probe) :
            probe[k].result =
                Sorted({d \in probe[k].start..probe[k].end :
                            /\ d \in DatesOf(source[probe[k].symbol])
                            /\ d \notin StoredDates(store[probe[k].symbol])})

\* C9: in the Stock-India and Index downloaders, every date the
\* missing-date computation returns is a date for which Source has a row
\* for the symbol.
C9_MissingDatesAreSourceDates ==
    univ \in {"stock", "index"} =>
        \A k \in 1..Len(probe) :
            SeqToSet(probe[k].result) \subseteq DatesOf(source[probe[k].symbol])

\* C10: two consecutive calls of the missing-date computation for the same
\* symbol and window, with no storage write between them and storage
\* answering both, return identical sequences, whether each Source call
\* returns the (unchanged) data or raises.
C10_MissingDatesIdempotent ==
    (Len(probe) = 2 /\ probe[1].dbOk /\ probe[2].dbOk)
        => probe[1].result = probe[2].result

\* C11: for a fixed symbol, window and Source content, when the stored dates
\* grew from S to S' between two calls of the missing-date computation
\* (storage answering both), the second result is a subset of the first; and
\* no call reports a date that is stored.
C11_MissingShrinksMonotonically ==
    /\ (Len(probe) = 2 /\ probe[1].dbOk /\ probe[2].dbOk
            /\ probe[1].stored \subseteq probe[2].stored)
           => SeqToSet(probe[2].result) \subseteq SeqToSet(probe[1].result)
    /\ \A k \in 1..Len(probe) : SeqToSet(probe[k].result) \cap probe[k].stored = {}

\* the incremental drivers that report successful/failed/skipped counts
CountingOps == {"download_all_etfs", "stock_update_missing_dates", "update_daily_data"}

\* C12: when the Source returned an empty result for a symbol's fetch
\* window, no row is written for the symbol and the symbol is counted as
\* skipped (not failed, not successful).
C12_EmptyFetchIsSkipped ==
    (/\ run[1].op \in CountingOps
     /\ StepEnded(1)
     /\ run[1].fetched
     /\ run[1].data = {})
        => /\ run[1].wrote = {}
           /\ run[1].commits = 0
           /\ run[1].outcome = "skip"

\* the fetch of the symbol's step raised on attempts 1 and 2 and returned
\* valid data on attempt 3, and no storage call of the step failed
ThirdAttemptReturnedValid(r) ==
    /\ run[r].op \in CountingOps
    /\ StepEnded(r)
    /\ run[r].srcErrs = 2
    /\ run[r].fetched
    /\ StockValidateData(run[r].data)
    /\ ~run[r].dbErr

\* C13: when the fetch step's Source call raised on attempts 1 and 2 and
\* returned valid data on attempt 3, the symbol is counted as successful and
\* exactly one batch write was committed for it.
C13_ThirdAttemptSucceedsOnce ==
    ThirdAttemptReturnedValid(1)
        => run[1].outcome = "succ" /\ run[1].commits = 1

\* every Source call made for the symbol in its step raised
EverySourceCallRaised(r) ==
    /\ run[r].op \in CountingOps
    /\ StepEnded(r)
    /\ ~run[r].fetched
    /\ run[r].missErr \/ run[r].srcErrs > 0

\* C14: when every Source call made for a symbol raised, the fetch was
\* attempted at most max_retries times, the symbol is counted as failed and
\* the run goes on (it is not aborted).
C14_AllSourceCallsFailCountsFailed ==
    /\ run[1].srcErrs <= MaxRetries
    /\ EverySourceCallRaised(1) => run[1].outcome = "fail"

\* the persistence step of run r ends with a storage error
SaveFails(r) ==
    /\ run[r].pc = "save"
    /\ run'[r].pc # "save"
    /\ run'[r].dbErr
    /\ ~run'[r].saved

\* C15: when the persistence of a batch fails, the batch is not committed:
\* storage is left as it was, so the next run computes the same missing dates.
C15_FailedSaveLeavesNoRows ==
    [][\A r \in RunIds : SaveFails(r) => store' = store]_vars

\* the step of run r has just counted its symbol as successful
JustCountedSuccessful(r) == run[r].pc = "sleep" /\ run[r].outcome = "succ"

\* C16: a symbol is counted as successful only if, at that moment, storage
\* holds a bar for every (symbol, date) key of the batch submitted for it.
C16_SuccessMeansBatchStored ==
    JustCountedSuccessful(1)
        => DatesOf(run[1].batch) \subseteq StoredDates(store[Symbol(1)])

\* position inside a symbol's step, in the order the driver passes them
PcRank(pc) ==
    CASE pc = "cursor" -> 1
      [] pc = "missing" -> 2
      [] pc = "fetch" -> 3
      [] pc = "process" -> 4
      [] pc = "save" -> 5
      [] pc = "sleep" -> 6
      [] pc = "loop" -> 7
      [] pc = "done" -> 8
      [] OTHER -> 0

\* a measure of how far a run is: symbols begun, attempts used, position
Progress(rec) == rec.i * 32 + rec.attempt * 8 + PcRank(rec.pc)

InRun(r) == run[r].pc \notin {"idle", "done", "aborted"}

\* C17: every step and every run terminates: each step of a run moves it
\* strictly forward (the measure is bounded by the symbol count and by
\* max_retries fetch attempts per symbol), and the run leaves its loop only
\* to its end-of-run summary, never through an exception.
C17_RunProgressesToSummary ==
    [][InRun(1) => /\ Progress(run'[1]) > Progress(run[1])
                   /\ run'[1].attempt <= MaxRetries
                   /\ run'[1].pc # "aborted"]_vars

\* the drivers of the per-symbol state machine with a cursor stage
CursorDrivers ==
    {"download_all_etfs", "stock_update_missing_dates", "index_update_missing_dates"}

\* validate_data of the run's universe
PassedValidation(data) ==
    CASE univ = "etf" -> EtfValidateData(data)
      [] univ = "stock" -> StockValidateData(data)
      [] univ = "index" -> IndexValidateData(data)
      [] OTHER -> TRUE

\* the stages the step of run r went through before persisting
PersistedInOrder(r) ==
    /\ run[r].trail = <<"cursor", "missing", "fetch", "validate">>
    /\ run[r].missing # <<>>
    /\ run[r].fetched /\ run[r].data # {}
    /\ PassedValidation(run[r].data)

AtPersistence(r) == run[r].pc = "save" \/ run[r].commits > 0

C19_StoredBarsNeverChange ==
    [][\A s \in Symbols(univ) : \A row \in RowsOf(store[s]) :
           row.date \in StoredDates(store'[s]) => row \in RowsOf(store'[s])]_vars

\* C20: in an incremental update every row written for a symbol has a date
\* strictly greater than the maximum stored date the step read for the
\* symbol at its start.
C20_WritesOnlyAfterCursor ==
    (Incremental(1) /\ run[1].last # 0)
        => \A row \in run[1].wrote : row.date > run[1].last

\* an incremental step that read a cursor has written rows
C20_Witness ==
    /\ Incremental(1)
    /\ run[1].last # 0
    /\ run[1].saved /\ run[1].wrote # {}

\* the other invocation
Other(r) == 3 - r

\* run r has ended a symbol's step for which the Source returned rows, no
\* Source or storage call of r has failed on its own, and the other
\* invocation is executing
EndedCleanStepBesideOther(r) ==
    /\ StepEnded(r)
    /\ run[r].fetched /\ run[r].batch # {}
    /\ ~run[r].faulted
    /\ run[Other(r)].pc \notin {"idle", "aborted"}

\* C21: when two runs of one downloader execute concurrently, storage holds
\* exactly one bar for every (symbol, date) of a batch a run submitted, and
\* neither run counts the symbol as failed (loses its batch) because of the
\* rows the other run wrote.
C21_ConcurrentRunsLoseNothing ==
    \A r \in RunIds :
        EndedCleanStepBesideOther(r)
            => /\ run[r].outcome # "fail"
               /\ \A d \in DatesOf(run[r].batch) : CountFor(store[Symbol(r)], d) = 1

\* the symbols the interrupted invocation r left unprocessed: those it had
\* not begun and the one whose step it was in
LeftUnprocessed(r) ==
    (Symbols(univ) \ run[r].processed)
        \cup (IF run[r].i >= 1 /\ run[r].outcome = "none" THEN {Symbol(r)} ELSE {})

\* a step changes a symbol's stored rows by a whole batch or not at all
BatchIsAtomic(r) ==
    \A s \in Symbols(univ) :
        store'[s] # store[s]
            => /\ run[r].pc = "save" /\ s = Symbol(r)
               /\ DatesOf(run[r].batch) \subseteq StoredDates(store'[s])

\* the invocation that follows an interrupted one is an incremental run that
\* has completed without a Source or storage fault
ResumedRunCompleted ==
    /\ run[2].pc = "interrupted"
    /\ Incremental(1)
    /\ run[1].pc = "done" /\ ~run[1].faulted

\* C22: when a run is interrupted, each symbol's batch is in storage whole or
\* not at all, and the next uninterrupted run processes every symbol the
\* interrupted run left unprocessed.
C22_InterruptLeavesWholeBatchesAndResumes ==
    [][/\ BatchIsAtomic(1) \/ BatchIsAtomic(2)
       /\ ResumedRunCompleted' => LeftUnprocessed(2)' \subseteq run'[1].processed]_vars

\* the drivers that compute a missing-date set for each symbol
MissingDateDrivers ==
    {"download_all_etfs", "etf_update_missing_dates", "stock_update_missing_dates",
     "index_update_missing_dates"}

\* C23: every row the ETF-India, Stock-India and Index incremental and
\* window-refill drivers submit and persist for a symbol has a date of the
\* missing-date set computed earlier in the same step.
C23_PersistedRowsAreMissingDates ==
    run[1].op \in MissingDateDrivers
        => /\ DatesOf(run[1].batch) \subseteq SeqToSet(run[1].missing)
           /\ DatesOf(run[1].wrote) \subseteq SeqToSet(run[1].missing)

\* the Source returned rows outside the missing-date set and the step wrote
C23_Witness ==
    /\ run[1].op \in MissingDateDrivers
    /\ run[1].wrote # {}
    /\ ~(DatesOf(run[1].data) \subseteq SeqToSet(run[1].missing))

\* the step of run r fetched a batch with no negative price and a zero price
FetchedZeroPriceBatch(r) ==
    /\ run[r].fetched
    /\ \A row \in run[r].data :
           row.open >= 0 /\ row.high >= 0 /\ row.low >= 0 /\ row.close >= 0
    /\ \E row \in run[r].data :
           row.open = 0 \/ row.high = 0 \/ row.low = 0 \/ row.close = 0

\* C24: in every universe a fetched batch whose prices are all non-negative
\* but that holds a zero price passes validation and is persisted: when the
\* step ends without a storage error, the symbol is not counted as failed and
\* storage holds a bar for each date of the batch.
C24_ZeroPriceBatchPersisted ==
    (StepEnded(1) /\ FetchedZeroPriceBatch(1) /\ ~run[1].dbErr)
        => /\ run[1].outcome # "fail"
           /\ DatesOf(run[1].data) \subseteq StoredDates(store[Symbol(1)])

\* C25: no bar is ever stored with a missing (null) open, high, low or
\* close.
C25_NoStoredBarLacksAPrice ==
    \A s \in Symbols(univ) : \A row \in RowsOf(store[s]) :
        /\ row.open # NoValue /\ row.high # NoValue
        /\ row.low # NoValue /\ row.close # NoValue

\* the step of run r has resolved a start date that is after the end date
StartAfterEnd(r) ==
    /\ Incremental(r)
    /\ run[r].start # 0
    /\ run[r].start > run[r].end

\* C26: when a symbol's resolved start date is after the run's end date, its
\* step makes no Source call, writes no row and does not count the symbol as
\* failed.
C26_StartAfterEndIsNothingToDo ==
    StartAfterEnd(1)
        => /\ ~run[1].fetched /\ run[1].srcErrs = 0 /\ ~run[1].missErr
           /\ run[1].wrote = {}
           /\ run[1].outcome # "fail"

\* the two drivers that report successful, failed and skipped counts
ThreeCounterOps == {"download_all_etfs", "stock_update_missing_dates"}

\* C27: at the end of a completed run of download_all_etfs or of the Stock
\* update_missing_dates, successful + failed + skipped equals the number of
\* symbols iterated.
C27_CountersSumToSymbols ==
    (run[1].op \in ThreeCounterOps /\ run[1].pc = "done")
        => run[1].succ + run[1].fail + run[1].skip = Len(run[1].syms)

\* C28: in download_all_etfs the rate-limit delay occurs between the last
\* Source call made for one symbol and the first Source call made for the
\* next: when a symbol's step is about to make its first Source call (in
\* get_missing_dates_for_symbol), no Source call is left without a delay
\* after it.
C28_DelayBetweenSymbolsSourceCalls ==
    (run[1].op = "download_all_etfs" /\ run[1].pc = "missing") => ~run[1].sinceCall

\* the step of run r holds a fetched batch that fails validate_data
HoldsInvalidBatch(r) ==
    /\ run[r].pc = "process"
    /\ run[r].fetched /\ run[r].data # {}
    /\ ~PassedValidation(run[r].data)

\* C29: after a fetched batch fails validation no further Source call is
\* made for the symbol: the step never returns to the fetch.
C29_NoRetryAfterValidationFailure ==
    [][HoldsInvalidBatch(1) => run'[1].pc # "fetch"]_vars

\* the full-backfill operations that leave out what is already downloaded
SeedingOps == {"download_all_stocks", "download_nifty50"}

\* run r is in a symbol's step before its save has returned
InFetchOrSave(r) == run[r].pc \in {"fetch", "process", "save"}

\* C30: download_all_stocks and download_nifty50 fetch and write only for
\* symbols that have no bar in storage: while a symbol's step fetches or
\* saves, storage holds no bar for the symbol (a symbol that has one is
\* never fetched, and its bars stay as they are).
C30_BackfillSkipsSymbolsWithBars ==
    (run[1].op \in SeedingOps /\ InFetchOrSave(1))
        => RowsOf(store[Symbol(1)]) = {}

\* C37: get_next_trading_day(date) returns the earliest day strictly after
\* date that is neither a configured weekend day nor a listed holiday, for
\* every date and every holiday list.
C37_NextTradingDayIsEarliest ==
    calendar.pc = "returned"
        => /\ calendar.next_day > calendar.date
           /\ IsTradingDay(calendar, calendar.next_day)
           /\ \A d \in (calendar.date + 1)..(calendar.next_day - 1) :
                  ~IsTradingDay(calendar, d)

\* the signals of one side in the list generate_signals returned
SignalsOf(side) ==
    {k \in 1..Len(generator.signals) : generator.signals[k].side = side}

\* C36: for a non-empty metrics table generate_signals emits exactly one BUY
\* signal, and when accumulation_weeks >= 0 it emits no SELL signal.
C36_OneBuyAndNoSellWhileAccumulating ==
    generator.pc = "returned"
        => /\ Cardinality(SignalsOf("BUY")) = 1
           /\ generator.accumulation_weeks >= 0 => SignalsOf("SELL") = {}

\* some fetcher of the call raised
SomeFetcherRaised == \E k \in 1..3 : fetchers.results[k].error

\* C31: run_all_fetchers attempts the three fetchers (US ETF, Indian ETF,
\* NIFTY 50) in that order whether or not an earlier one raised, and returns
\* True exactly when none of the three raised.
C31_AllThreeAttemptedInOrder ==
    fetchers.pc = "returned"
        => /\ fetchers.steps = ResultKeys
           /\ fetchers.all_success <=> ~SomeFetcherRaised

\* the call returned after its first fetcher raised and its last one returned
C31_Witness ==
    /\ fetchers.pc = "returned"
    /\ fetchers.results[1].error
    /\ fetchers.results[3].success
    /\ ~fetchers.all_success

\* C32: in none of the three universes does run_all_fetchers persist a bar
\* dated outside [start_date, end_date]: a step of a fetcher adds to the
\* table only rows dated inside the range.
C32_PersistsOnlyInsideRange ==
    [][(fetchers.pc \in {"step1", "step2", "step3"} /\ univ' = univ)
          => \A s \in Symbols(univ) :
                 StoredDates(store'[s]) \ StoredDates(store[s])
                     \subseteq fetchers.start_date..fetchers.end_date]_vars

\* C33: across any sequence of signal-execution calls (execute_etf_signals,
\* execute_stock_signals, the API's per-user execute endpoint) the webhook of
\* a signal is POSTed at most once.
C33_WebhookPostedAtMostOnce == \A id \in SignalIds : posts[id] <= 1

\* the step changes the execution_status of signal id
StatusChanges(id) == signals'[id].execution_status # signals[id].execution_status

\* the step is of call e, which has POSTed the webhook of signal id and
\* marks the signal
JustPosted(e, id) ==
    /\ exec[e].op = "execute_signals"
    /\ exec[e].pc = "mark"
    /\ exec'[e] # exec[e]
    /\ Current(e) = id

\* the step of call e finds that the payload of its signal cannot be prepared
PayloadNotPrepared(e) ==
    exec[e].pc = "prepare" /\ exec'[e] # exec[e] /\ exec'[e].pc # "post"

\* the step is the selection of call e
Selects(e) == exec[e].pc = "idle" /\ exec'[e].pc = "prepare"

\* C34: a signal's execution_status changes only from 'pending', to
\* 'executed' when the POST was answered 200 or 201 and to 'failed' on any
\* other outcome, and only directly after a POST attempt for that signal; a
\* signal whose payload cannot be prepared is not POSTed and stays as it is;
\* a signal that is 'executed' or 'failed' is never selected again.
C34_StatusLeavesPendingOnlyAfterPost ==
    [][/\ \A id \in SignalIds : StatusChanges(id)
              => /\ signals[id].execution_status = "pending"
                 /\ \E e \in ExecIds :
                        /\ JustPosted(e, id)
                        /\ signals'[id].execution_status =
                               IF exec[e].success THEN "executed" ELSE "failed"
       /\ \A e \in ExecIds : PayloadNotPrepared(e)
              => posts' = posts /\ signals' = signals
       /\ \A e \in ExecIds : Selects(e)
              => \A g \in DOMAIN exec'[e].groups :
                     \A id \in SeqToSet(exec'[e].groups[g]) :
                         signals[id].execution_status = "pending"]_vars

\* the accumulation_weeks the strategy of group key has lost since call e began
Decrement(e, key) ==
    LET row == <<exec[e].kind, key[1], key[2]>>
    IN exec[e].before[row].accumulation_weeks - strategies[row].accumulation_weeks

\* C35: in one call of execute_etf_signals / execute_stock_signals the
\* accumulation_weeks of a strategy is decremented by exactly 1 for each
\* (user_id, strategy_name) group in which at least one webhook succeeded,
\* however many, and is unchanged for every group without a success.
C35_OneDecrementPerSuccessfulGroup ==
    (exec[1].op = "execute_signals" /\ exec[1].pc = "done")
        => \A key \in Users \X StrategyNames :
               Decrement(1, key) = IF key \in exec[1].succeeded THEN 1 ELSE 0

====
